---- MODULE Spec2Model ----
(***************************************************************************)
(* ai-news-daily: the curation pipeline of fetch_news.py and its scheduler.*)
(*                                                                         *)
(*   SpecFetch  fetch_articles: per-source scan, freshness and relevance   *)
(*              filter, per-source cap, de-duplication by url, ranking.    *)
(*   SpecLLM    summarize_with_gemini and generate_joho_commentary: the    *)
(*              ordered candidate loop, JSON extraction, error             *)
(*              classification and the deterministic fallback.             *)
(*   SpecStore  main, save_data and load_history: runs of the pipeline     *)
(*              that follow one another over one data directory.           *)
(*   SpecSched  scheduler_loop.py: the cold-start run, get_next_run, the   *)
(*              chunked wait, run_fetch and the interrupt handler;         *)
(*              SpecSchedFair adds the fairness of the scheduler's steps.  *)
(*   SpecPublish generate_html and upload_to_ftp: rendering from dicts     *)
(*              that may lack keys, and the guarded FTP session.           *)
(*   SpecRun    one child run as its sequence of outbound calls, each with *)
(*              the timeout it is made with, and the scheduler's wait.     *)
(*   SpecDate   parse_pub_date over entries with structured and textual    *)
(*              date fields.                                               *)
(*                                                                         *)
(* In SpecFetch and SpecLLM time is counted in whole hours since an epoch, *)
(* and a response text is a single line, a sequence of tokens (see Width). *)
(***************************************************************************)
EXTENDS Integers, Sequences, FiniteSets, TLC

VARIABLES
    \* ---- fetch_articles ----
    fpc,            \* position in fetch_articles
    now_utc,        \* datetime.now(timezone.utc), in hours
    max_per_feed,   \* the parameter of fetch_articles
    src,            \* index into RSS_FEEDS of the source being processed
    feeds,          \* feeds[s]: feed.entries as returned by feedparser.parse for source s
    idx,            \* position of the entry loop in feed.entries
    count,          \* accepted entries of the current source
    skipped_old,    \* entries of the current source dropped as too old
    articles,       \* the accumulating list of accepted articles
    unique,         \* the de-duplicated, ranked list fetch_articles returns
    visited,        \* sources the for loop has turned to
    failed,         \* sources whose try block ended in the except branch
    raised_at,      \* raised_at[s]: index of the entry whose processing raised, 0 if none
    dropped,        \* <<source, index>> of every entry dropped by the freshness check
    \* ---- summarize_with_gemini / generate_joho_commentary ----
    fn,             \* which of the two functions is being called
    GEMINI_API_KEY, \* TRUE iff the environment variable is non-empty
    lpc,            \* position in the called function
    cand,           \* index into models_to_try of the next candidate
    invoked,        \* the candidates invoked so far, with what each call produced
    result,         \* what the function returned
    \* ---- main, save_data, load_history (fetch_news.py) ----
    mpc,            \* position of the current run in main
    clock,          \* datetime.now(jst), in ticks (see TicksPerMinute)
    DATA_DIR,       \* the data directory: file name -> file content
    data,           \* save_data's local: the snapshot being written
    filepath,       \* save_data's local: the name of the timestamped file
    history,        \* what load_history returned
    runs,           \* runs of main started so far
    \* ---- scheduler_loop.py ----
    spc,            \* position of the scheduler
    now_jst,        \* datetime.now(jst), in minutes since 00:00 of the current day
    next_run,       \* main's local: the trigger instant being waited for
    remaining,      \* main's local: the wait computed before the sleep
    slept,          \* the argument of the last time.sleep call
    caller,         \* the call site of the current or last run_fetch call
    live,           \* child processes started by run_fetch that have not exited
    outcome,        \* how the last run_fetch call went
    logs_exist,     \* TRUE iff the logs directory exists
    \* ---- generate_html, upload_to_ftp (fetch_news.py) ----
    ppc,            \* position of main from generate_html on
    current_data,   \* main's local: the dict handed to generate_html
    index_html,     \* the content of web/index.html
    FTP_HOST,       \* TRUE iff the environment variable is non-empty
    FTP_USER,       \* TRUE iff the environment variable is non-empty
    FTP_PASSWORD,   \* TRUE iff the environment variable is non-empty
    ftp,            \* how far the FTP session has got
    remote,         \* the content of index.html on the server
    printed,        \* the lines upload_to_ftp has printed
    \* ---- the outbound calls of one run (fetch_news.py, scheduler_loop.py) ----
    cpc,            \* the call the child run is in, or where it is between calls
    peer,           \* for every outbound call, what its peer does
    waited,         \* seconds the child has waited in its current call
    \* ---- run_fetch's result and log (scheduler_loop.py) ----
    stdout,         \* TRUE iff result.stdout of the last child is non-empty
    stderr,         \* TRUE iff result.stderr of the last child is non-empty
    scheduler_log,  \* the entries the last run_fetch call has logged
    \* ---- parse_pub_date (fetch_news.py) ----
    dpc,            \* position of parse_pub_date
    feed_entry,          \* the feed entry: its two structured and its two textual date fields
    local_tz,       \* the UTC offset of the machine's local time, in hours
    returned_dt,         \* what parse_pub_date returns: an instant in hours, or None
    \* ---- history ----
    missed          \* TRUE iff a trigger time passed while the last child was running

fetchVars == <<fpc, now_utc, max_per_feed, src, feeds, idx, count, skipped_old,
               articles, unique, visited, failed, raised_at, dropped>>
llmVars   == <<fn, GEMINI_API_KEY, lpc, cand, invoked, result>>
storeVars == <<mpc, clock, DATA_DIR, data, filepath, history, runs>>
schedVars == <<spc, now_jst, next_run, remaining, slept, caller, live, outcome, logs_exist>>
pubVars   == <<ppc, current_data, index_html, FTP_HOST, FTP_USER, FTP_PASSWORD,
               ftp, remote, printed>>
callVars  == <<cpc, peer, waited>>
logVars   == <<stdout, stderr, scheduler_log>>
dateVars  == <<dpc, feed_entry, local_tz, returned_dt>>
vars      == <<fetchVars, llmVars, storeVars, schedVars, pubVars, callVars, logVars, dateVars, missed>>

----------------------------------------------------------------------------
(* Bounds *)

MaxEntries  == 2     \* longest feed.entries
MaxCap      == 2     \* largest max_per_feed
MaxArticles == 12    \* longest ranked list handed to the summarizer

(* Program constants *)

MAX_ARTICLE_AGE_HOURS == 24
DummyTop == 10      \* articles[:10] in _dummy_summary
PointLen == 50      \* art["summary"][:50]

Min(a, b) == IF a < b THEN a ELSE b
Range(s)  == {s[i] : i \in 1..Len(s)}

----------------------------------------------------------------------------
(* fetch_articles: helpers *)

\* the clock readings a run may start at, in hours
NowSet == {129}

None == -1                       \* parse_pub_date found no instant

\* the feed registry, cut down to its first two sources
RSS_FEEDS == <<"TechCrunch AI", "VentureBeat">>

NumSources == Len(RSS_FEEDS)

AI_KEYWORDS == {"ai", "gpu", "chip"}

\* str.lower on the words the entries use
WordLower(w) == CASE w = "AI"  -> "ai"
                  [] w = "GPU" -> "gpu"
                  [] OTHER     -> w

\* any(kw.lower() in text for kw in AI_KEYWORDS), text = (title + " " + summary).lower()
is_ai_related(title, summary) ==
    LET text == title \o summary
    IN  \E i \in 1..Len(text) : WordLower(text[i]) \in AI_KEYWORDS

\* The entries a feed may hold: title, summary and link as feedparser gives
\* them, pub the instant parse_pub_date computes for the entry (None: no
\* attempt parsed).
Entries ==
    { [title |-> <<"AI", "lab">>,  summary |-> <<"news">>, link |-> 1, pub |-> 109],
      [title |-> <<"new", "GPU">>, summary |-> <<"chip">>, link |-> 2, pub |-> 105],
      [title |-> <<"AI", "lab">>,  summary |-> <<"news">>, link |-> 3, pub |-> None],
      [title |-> <<"old", "ai">>,  summary |-> <<"news">>, link |-> 1, pub |-> 85],
      [title |-> <<"sports">>,     summary |-> <<"news">>, link |-> 2, pub |-> 105] }

RECURSIVE SeqsUpTo(_, _)
SeqsUpTo(S, n) ==
    IF n = 0 THEN {<<>>}
    ELSE LET shorter == SeqsUpTo(S, n - 1)
         IN  shorter \cup {Append(q, e) : q \in {p \in shorter : Len(p) = n - 1}, e \in S}

\* day and hour written without zero padding
RECURSIVE Digits(_)
Digits(n) == IF n < 10 THEN <<n>> ELSE Append(Digits(n \div 10), n % 10)

IsoFormatUnpadded(h) == Digits(h \div 24) \o Digits(h % 24)

\* datetime.isoformat, reduced to "DDTHH": day and hour, each zero-padded to two digits
IsoFormat(h) ==
    LET d  == h \div 24
        hh == h % 24
    IN  <<d \div 10, d % 10, hh \div 10, hh % 10>>

\* pub_dt.isoformat() if pub_dt else ""
PubKey(pub) == IF pub = None THEN <<>> ELSE IsoFormat(pub)

\* str < str
RECURSIVE StrLess(_, _)
StrLess(a, b) ==
    IF b = <<>> THEN FALSE
    ELSE IF a = <<>> THEN TRUE
    ELSE IF Head(a) # Head(b) THEN Head(a) < Head(b)
    ELSE StrLess(Tail(a), Tail(b))

\* the comparison without the test that an instant is known
TooOldUnguarded(pub_dt, cutoff) == pub_dt < cutoff

\* if pub_dt and pub_dt < cutoff
TooOld(pub_dt, cutoff) == pub_dt # None /\ pub_dt < cutoff

\* the cap test off by one
CapReachedLate(c, m) == c > m

\* if count >= max_per_feed: break
CapReached(c, m) == c >= m

\* the dict appended for an accepted entry
MakeArticle(feed_name, entry) ==
    [source  |-> feed_name,
     title   |-> entry.title,
     url     |-> entry.link,
     summary |-> entry.summary,
     pub_dt  |-> PubKey(entry.pub)]

\* the unique loop without the membership test on seen
DedupKeepAll(arts, seen) == arts

\* seen / unique loop: first occurrence of a url wins
RECURSIVE Dedup(_, _)
Dedup(arts, seen) ==
    IF arts = <<>> THEN <<>>
    ELSE IF Head(arts).url \in seen THEN Dedup(Tail(arts), seen)
    ELSE <<Head(arts)>> \o Dedup(Tail(arts), seen \cup {Head(arts).url})

\* list.sort(key=pub_dt, reverse=True): stable, descending by key
RECURSIVE InsertDesc(_, _)
InsertDesc(sorted, a) ==
    IF sorted = <<>> THEN <<a>>
    ELSE IF StrLess(Head(sorted).pub_dt, a.pub_dt) THEN <<a>> \o sorted
    ELSE <<Head(sorted)>> \o InsertDesc(Tail(sorted), a)

RECURSIVE SortDesc(_)
SortDesc(arts) ==
    IF arts = <<>> THEN <<>>
    ELSE InsertDesc(SortDesc(SubSeq(arts, 1, Len(arts) - 1)), arts[Len(arts)])

\* the source the for loop turns to after the current one
NextSource(s) == s + 1

\* a break out of the source loop instead of the continue
OnSourceErrorAbort(s) == NumSources + 1

\* except Exception: ... continue
OnSourceError(s) == NextSource(s)

\* where fetch_articles stands once the loop variable is s
AfterSource(s) == IF s > NumSources THEN "dedup" ELSE "fetch"

----------------------------------------------------------------------------
(* fetch_articles: actions *)

LLMIdle ==
    /\ fn = "none"
    /\ GEMINI_API_KEY = FALSE
    /\ lpc = "idle"
    /\ cand = 1
    /\ invoked = <<>>
    /\ result = [kind |-> "none", value |-> <<>>]

\* no run of main is modelled
StoreIdle ==
    /\ mpc = "idle"
    /\ clock = 0
    /\ DATA_DIR = <<>>
    /\ data = [bytes |-> "none"]
    /\ filepath = [prefix |-> "none", stamp |-> <<>>]
    /\ history = <<>>
    /\ runs = 0

\* the next_run of a scheduler that has not computed one
Unset == -10000

\* no scheduler is modelled
SchedIdle ==
    /\ spc = "idle"
    /\ now_jst = 0
    /\ next_run = Unset
    /\ remaining = 0
    /\ slept = 0
    /\ caller = "none"
    /\ live = 0
    /\ outcome = "none"
    /\ logs_exist = FALSE

\* index.html before any run has written it
NoPage == [bytes |-> "none"]

\* no rendering or upload is modelled
PubIdle ==
    /\ ppc = "idle"
    /\ current_data = [bytes |-> "none"]
    /\ index_html = NoPage
    /\ FTP_HOST = FALSE
    /\ FTP_USER = FALSE
    /\ FTP_PASSWORD = FALSE
    /\ ftp = "none"
    /\ remote = NoPage
    /\ printed = <<>>

\* parse_pub_date is not modelled
DateIdle ==
    /\ dpc = "idle"
    /\ feed_entry = <<>>
    /\ local_tz = 0
    /\ returned_dt = -1
    /\ missed = FALSE

\* run_fetch has logged nothing
LogIdle ==
    /\ stdout = FALSE
    /\ stderr = FALSE
    /\ scheduler_log = <<>>

\* the calls of a run are not modelled
CallIdle ==
    /\ cpc = [at |-> "idle", k |-> 0]
    /\ peer = <<>>
    /\ waited = 0

InitFetch ==
    /\ fpc = "fetch"
    /\ now_utc \in NowSet
    /\ max_per_feed \in 1..MaxCap
    /\ src = 1
    /\ feeds = [s \in 1..NumSources |-> <<>>]
    /\ idx = 1
    /\ count = 0
    /\ skipped_old = 0
    /\ articles = <<>>
    /\ unique = <<>>
    /\ visited = {}
    /\ failed = {}
    /\ raised_at = [s \in 1..NumSources |-> 0]
    /\ dropped = {}
    /\ LLMIdle
    /\ StoreIdle
    /\ SchedIdle
    /\ PubIdle
    /\ CallIdle
    /\ LogIdle
    /\ DateIdle

\* feed = feedparser.parse(feed_url) returns; count = 0; skipped_old = 0
FetchFeed ==
    /\ fpc = "fetch"
    /\ \E f \in SeqsUpTo(Entries, MaxEntries) :
           feeds' = [feeds EXCEPT ![src] = f]
    /\ idx' = 1
    /\ count' = 0
    /\ skipped_old' = 0
    /\ fpc' = "scan"
    /\ visited' = visited \cup {src}
    /\ UNCHANGED <<now_utc, max_per_feed, src, articles, unique, failed, raised_at, dropped, llmVars, storeVars, schedVars, pubVars, callVars, logVars, dateVars, missed>>

\* feedparser.parse raises: except Exception -> continue
FetchRaises ==
    /\ fpc = "fetch"
    /\ visited' = visited \cup {src}
    /\ failed' = failed \cup {src}
    /\ src' = OnSourceError(src)
    /\ fpc' = AfterSource(OnSourceError(src))
    /\ UNCHANGED <<now_utc, max_per_feed, feeds, idx, count, skipped_old,
                   articles, unique, raised_at, dropped, llmVars, storeVars, schedVars, pubVars, callVars, logVars, dateVars, missed>>

\* one iteration of the entry loop
ScanEntry ==
    /\ fpc = "scan"
    /\ idx <= Len(feeds[src])
    /\ ~CapReached(count, max_per_feed)
    /\ LET entry  == feeds[src][idx]
           cutoff == now_utc - MAX_ARTICLE_AGE_HOURS
       IN  IF TooOld(entry.pub, cutoff)
           THEN /\ skipped_old' = skipped_old + 1
                /\ dropped' = dropped \cup {<<src, idx>>}
                /\ UNCHANGED <<articles, count>>
           ELSE IF is_ai_related(entry.title, entry.summary)
           THEN /\ articles' = Append(articles, MakeArticle(RSS_FEEDS[src], entry))
                /\ count' = count + 1
                /\ UNCHANGED <<skipped_old, dropped>>
           ELSE UNCHANGED <<articles, count, skipped_old, dropped>>
    /\ idx' = idx + 1
    /\ UNCHANGED <<fpc, now_utc, max_per_feed, src, feeds, unique, visited, failed, raised_at, llmVars, storeVars, schedVars, pubVars, callVars, logVars, dateVars, missed>>

\* a statement of the loop body raises while processing an entry:
\* except Exception -> continue with the next source
EntryRaises ==
    /\ fpc = "scan"
    /\ idx <= Len(feeds[src])
    /\ ~CapReached(count, max_per_feed)
    /\ failed' = failed \cup {src}
    /\ raised_at' = [raised_at EXCEPT ![src] = idx]
    /\ src' = OnSourceError(src)
    /\ fpc' = AfterSource(OnSourceError(src))
    /\ UNCHANGED <<now_utc, max_per_feed, feeds, idx, count, skipped_old,
                   articles, unique, visited, dropped, llmVars, storeVars, schedVars, pubVars, callVars, logVars, dateVars, missed>>

\* the entry loop ends (entries exhausted, or break on the cap)
EndSource ==
    /\ fpc = "scan"
    /\ (idx > Len(feeds[src]) \/ CapReached(count, max_per_feed))
    /\ src' = NextSource(src)
    /\ fpc' = AfterSource(NextSource(src))
    /\ UNCHANGED <<now_utc, max_per_feed, feeds, idx, count, skipped_old,
                   articles, unique, visited, failed, raised_at, dropped, llmVars, storeVars, schedVars, pubVars, callVars, logVars, dateVars, missed>>

\* seen/unique loop, unique.sort(...), return unique
DedupSort ==
    /\ fpc = "dedup"
    /\ unique' = SortDesc(Dedup(articles, {}))
    /\ fpc' = "done"
    /\ UNCHANGED <<now_utc, max_per_feed, src, feeds, idx, count, skipped_old,
                   articles, visited, failed, raised_at, dropped, llmVars, storeVars, schedVars, pubVars, callVars, logVars, dateVars, missed>>

NextFetch ==
    \/ FetchFeed
    \/ FetchRaises
    \/ ScanEntry
    \/ EntryRaises
    \/ EndSource
    \/ DedupSort

SpecFetch == InitFetch /\ [][NextFetch]_vars

----------------------------------------------------------------------------
(* fetch_articles: properties *)

Cutoff == now_utc - MAX_ARTICLE_AGE_HOURS

\* the instant an article's pub_dt text stands for
InstantOf(a) == CHOOSE p \in {e.pub : e \in Entries} : PubKey(p) = a.pub_dt

\* the entry is neither dropped as too old nor as irrelevant
Passes(e) ==
    /\ ~(e.pub # None /\ e.pub < Cutoff)
    /\ \E w \in Range(e.title \o e.summary) : w \in {"AI", "ai", "GPU", "gpu", "chip"}

FirstN(s, n) == SubSeq(s, 1, Min(n, Len(s)))

\* the entries of a feed that pass both checks, in feed order
Passing(feed) == SelectSeq(feed, Passes)

\* the articles the source would contribute if its scan ran to the end
Expected(s) ==
    LET pass == FirstN(Passing(feeds[s]), max_per_feed)
    IN  [i \in 1..Len(pass) |-> MakeArticle(RSS_FEEDS[s], pass[i])]

\* the articles accepted from source s, in the order they were accepted
Accepted(s) == SelectSeq(articles, LAMBDA a : a.source = RSS_FEEDS[s])

IsPrefix(a, b) == Len(a) <= Len(b) /\ a = SubSeq(b, 1, Len(a))

\* C6: the list fetch_articles returns holds no two articles with the same url.
C6_NoDuplicateUrl ==
    \A i, j \in 1..Len(unique) : i # j => unique[i].url # unique[j].url

\* a run that accepted the same url twice and returned more than one article
C6_Witness ==
    /\ fpc = "done"
    /\ Len(unique) >= 2
    /\ \E i, j \in 1..Len(articles) : i < j /\ articles[i].url = articles[j].url

\* C7: an entry with a known instant older than now - 24h is never accepted
\* nor returned, and the freshness check drops no entry whose instant is unknown.
C7_Freshness ==
    /\ \A s \in 1..NumSources : \A i \in 1..Len(feeds[s]) :
           LET e == feeds[s][i]
           IN  (e.pub # None /\ e.pub < Cutoff) =>
                   /\ MakeArticle(RSS_FEEDS[s], e) \notin Range(articles)
                   /\ MakeArticle(RSS_FEEDS[s], e) \notin Range(unique)
    /\ \A d \in dropped :
           /\ feeds[d[1]][d[2]].pub # None
           /\ feeds[d[1]][d[2]].pub < Cutoff

\* a run that dropped an old entry and returned an entry with an unknown instant
C7_Witness ==
    /\ fpc = "done"
    /\ dropped # {}
    /\ \E a \in Range(unique) : a.pub_dt = <<>>
    /\ \E s \in 1..NumSources : \E i \in 1..Len(feeds[s]) :
           feeds[s][i].pub = None /\ MakeArticle(RSS_FEEDS[s], feeds[s][i]) \in Range(unique)

\* C8: the returned list is in descending order of instant, and every article
\* with an unknown instant comes after every article with a known one.
C8_Ranked ==
    fpc = "done" =>
        \A i, j \in 1..Len(unique) :
            i < j =>
                LET pi == InstantOf(unique[i])
                    pj == InstantOf(unique[j])
                IN  /\ pi = None => pj = None
                    /\ (pi # None /\ pj # None) => pi >= pj

\* a run whose sort reordered the merged list, with known and unknown instants
C8_Witness ==
    /\ fpc = "done"
    /\ unique # Dedup(articles, {})
    /\ \E a \in Range(unique) : a.pub_dt = <<>>
    /\ \E a, b \in Range(unique) : a.pub_dt # <<>> /\ b.pub_dt # <<>> /\ a.pub_dt # b.pub_dt

\* C9: when a source fails, every configured source is still turned to, and
\* what the other sources contribute is accepted and its url is returned.
C9_SourceIsolation ==
    (fpc = "done" /\ failed # {}) =>
        /\ visited = 1..NumSources
        /\ \A s \in (1..NumSources) \ failed :
               \A a \in Range(Expected(s)) :
                   /\ a \in Range(articles)
                   /\ \E u \in Range(unique) : u.url = a.url

\* a run where the first source failed and a later source contributed an article
C9_Witness ==
    /\ fpc = "done"
    /\ 1 \in failed
    /\ \E s \in (1..NumSources) \ failed :
           /\ Expected(s) # <<>>
           /\ \E u \in Range(unique) : u.source = RSS_FEEDS[s]

\* the feed of source s without the entry whose processing raised
OtherEntries(s) ==
    LET feed == feeds[s]
        keep == {i \in 1..Len(feed) : i # raised_at[s]}
        pos(k) == CHOOSE i \in keep : Cardinality({j \in keep : j < i}) = k - 1
    IN  [k \in 1..Cardinality(keep) |-> feed[pos(k)]]

\* C10 as stated: for each source the accepted entries are exactly the first
\* max_per_feed entries of the feed that pass both checks (an entry whose
\* processing raised is counted as passing neither).
C10_Original ==
    fpc = "done" =>
        \A s \in 1..NumSources :
            LET pass == FirstN(Passing(OtherEntries(s)), max_per_feed)
            IN  /\ Len(Accepted(s)) <= max_per_feed
                /\ Accepted(s) = [i \in 1..Len(pass) |-> MakeArticle(RSS_FEEDS[s], pass[i])]

\* C10 amended: at most max_per_feed entries are accepted per source; a source
\* whose scan ends without a failure contributes exactly the first max_per_feed
\* passing entries in feed order (dropped entries do not count toward the
\* cap); a source that fails during the scan contributes the passing entries
\* scanned before the failure, a prefix of them.
C10_PerSourceCap ==
    /\ \A s \in 1..NumSources : Len(Accepted(s)) <= max_per_feed
    /\ fpc = "done" =>
           \A s \in 1..NumSources :
               /\ s \notin failed => Accepted(s) = Expected(s)
               /\ s \in failed =>
                      LET before == SubSeq(feeds[s], 1, raised_at[s] - 1)
                          pass   == FirstN(Passing(before), max_per_feed)
                      IN  /\ Accepted(s) = [i \in 1..Len(pass) |-> MakeArticle(RSS_FEEDS[s], pass[i])]
                          /\ IsPrefix(Accepted(s), Expected(s))

\* a source that reached the cap after an entry was dropped, leaving a
\* passing entry of the feed unaccepted
C10_Witness ==
    /\ fpc = "done"
    /\ \E s \in (1..NumSources) \ failed :
           /\ Len(Accepted(s)) = max_per_feed
           /\ Len(Passing(feeds[s])) > max_per_feed
    /\ \E s \in (1..NumSources) \ failed :
           /\ Len(Accepted(s)) = max_per_feed
           /\ ~Passes(feeds[s][1])

----------------------------------------------------------------------------
(* summarize_with_gemini / generate_joho_commentary: helpers *)

models_to_try == <<"gemini-2.0-flash", "gemini-2.0-flash-lite",
                   "gemini-2.5-flash", "gemini-flash-lite-latest">>

\* width of a run of whitespace in a response, in characters
PadWidth == 427

\* A response text is a sequence of tokens:
\*   "{" "}" "[" "]"  the JSON brackets
\*   "k"              well-formed JSON content between brackets (members, separators)
\*   "w"              a character that is not JSON
\*   "pad"            a run of PadWidth blanks
\*   "fj" "f"         the fence markers ```json and ```
Width(t) == CASE t = "pad" -> PadWidth
              [] t = "k"   -> 5
              [] t = "fj"  -> 7
              [] t = "f"   -> 3
              [] OTHER     -> 1

RECURSIVE TextLen(_)
TextLen(t) == IF t = <<>> THEN 0 ELSE Width(Head(t)) + TextLen(Tail(t))

\* what response.text may be
ResponseTexts ==
    { <<"{", "k", "}">>,
      <<"fj", "pad", "{", "k", "[", "k", "]", "}", "f">>,
      <<"w", "{", "k", "}", "w">>,
      <<"w">>,
      <<"{", "w", "}">>,
      <<"{", "pad", "w", "}">>,
      <<"{", "k", "}", "w", "}">>,
      <<"{", "k", "}", "{", "k", "}">>,
      <<"[", "{", "k", "}", "]">>,
      <<"[", "pad", "w", "]">>,
      <<"[", "w", "]">> }

NoError == [type |-> "none", words |-> <<>>, nums |-> <<>>]

\* what client.models.generate_content may raise: str(e) as its words and numbers
APIErrors ==
    { [type |-> "ClientError", words |-> <<"RESOURCE_EXHAUSTED">>, nums |-> <<429>>],
      [type |-> "ClientError", words |-> <<"Quota", "exceeded">>,  nums |-> <<403>>],
      [type |-> "ServerError", words |-> <<"UNAVAILABLE">>,        nums |-> <<503>>] }

\* what one call of generate_content may produce
CallOutcomes ==
    {[kind |-> "error", err |-> e, text |-> <<>>] : e \in APIErrors}
    \cup {[kind |-> "text", err |-> NoError, text |-> t] : t \in ResponseTexts}
    \cup {[kind |-> "notext", err |-> NoError, text |-> <<>>]}

\* leading whitespace removed (the \s* of the fence patterns)
RECURSIVE DropWs(_)
DropWs(t) == IF t # <<>> /\ Head(t) = "pad" THEN DropWs(Tail(t)) ELSE t

\* re.sub(fence + r"\s*", "", text)
RECURSIVE StripFence(_, _)
StripFence(t, fence) ==
    IF t = <<>> THEN <<>>
    ELSE IF Head(t) = fence THEN StripFence(DropWs(Tail(t)), fence)
    ELSE <<Head(t)>> \o StripFence(Tail(t), fence)

\* re.search(open + r"[\s\S]*" + close, text): from the first open to the
\* last close; <<>> when there is no match
Search(t, open, close) ==
    LET opens  == {i \in 1..Len(t) : t[i] = open}
        closes == {i \in 1..Len(t) : t[i] = close}
    IN  IF opens = {} \/ closes = {} THEN <<>>
        ELSE LET first == CHOOSE i \in opens : \A j \in opens : i <= j
                 last  == CHOOSE i \in closes : \A j \in closes : i >= j
             IN  IF last > first THEN SubSeq(t, first, last) ELSE <<>>

Closer(b) == IF b = "{" THEN "}" ELSE "]"

\* the JSON decoder run over s from token i with the open brackets in stack:
\* 0 when s is one well-formed value, else the index of the offending token
\* (Len(s) + 1: the text ended too early)
RECURSIVE JsonScan(_, _, _)
JsonScan(s, i, stack) ==
    IF i > Len(s) THEN (IF stack = <<>> THEN 0 ELSE i)
    ELSE IF s[i] = "pad" THEN JsonScan(s, i + 1, stack)
    ELSE IF stack = <<>> /\ i > 1 THEN i
    ELSE IF s[i] \in {"{", "["} THEN JsonScan(s, i + 1, <<s[i]>> \o stack)
    ELSE IF s[i] \in {"}", "]"}
         THEN IF stack # <<>> /\ Closer(Head(stack)) = s[i]
              THEN JsonScan(s, i + 1, Tail(stack))
              ELSE i
    ELSE IF s[i] = "k" /\ stack # <<>> THEN JsonScan(s, i + 1, stack)
    ELSE i

\* the value json.loads builds: the text without its whitespace
JsonValue(s) == SelectSeq(s, LAMBDA t : t # "pad")

\* JSONDecodeError: "<msg>: line <lineno> column <colno> (char <pos>)" on a one-line text
JSONDecodeError(s, i) ==
    LET pos == TextLen(SubSeq(s, 1, i - 1))
    IN  [type  |-> "JSONDecodeError",
         words |-> <<"Expecting", "value", "line", "column", "char">>,
         nums  |-> <<1, pos + 1, pos>>]

\* the body of the try block after the call: strip the fences, search, parse
ParseResponse(o, open, close) ==
    IF o.kind = "error" THEN [ok |-> FALSE, value |-> <<>>, err |-> o.err]
    ELSE IF o.kind = "notext"
    THEN [ok |-> FALSE, value |-> <<>>,
          err |-> [type |-> "TypeError", words |-> <<"expected", "string">>, nums |-> <<>>]]
    ELSE LET stripped == StripFence(StripFence(o.text, "fj"), "f")
             m        == Search(stripped, open, close)
             bad      == JsonScan(m, 1, <<>>)
         IN  IF m = <<>>
             THEN [ok |-> FALSE, value |-> <<>>,
                   err |-> [type |-> "ValueError", words |-> <<"JSON", "not", "found">>, nums |-> <<>>]]
             ELSE IF bad = 0
             THEN [ok |-> TRUE, value |-> JsonValue(m), err |-> NoError]
             ELSE [ok |-> FALSE, value |-> <<>>, err |-> JSONDecodeError(m, bad)]

\* "429" in str(n)
RECURSIVE Has429(_)
Has429(n) == n >= 429 /\ (n % 1000 = 429 \/ Has429(n \div 10))

\* str.lower on the words of the error texts
ErrLower(w) == CASE w = "Quota" -> "quota"
                 [] w = "QUOTA" -> "quota"
                 [] OTHER       -> w

\* "429" in err_str or "quota" in err_str.lower()
IsRateLimit(err) ==
    \/ \E n \in Range(err.nums) : Has429(n)
    \/ \E w \in Range(err.words) : ErrLower(w) = "quota"

\* a handler that goes on to the next candidate whatever the error
OnErrorAlwaysContinue(err) == "continue"

\* the except branch: continue on a rate limit, break otherwise
OnError(err) == IF IsRateLimit(err) THEN "continue" ELSE "break"

\* a handler for the API's own errors only
CaughtAPIOnly(err) == err.type \in {"ClientError", "ServerError"}

\* except Exception as e
Caught(err) ==
    err.type \in {"ClientError", "ServerError", "ValueError", "JSONDecodeError", "TypeError"}

\* s[:n]
Slice(s, n) == SubSeq(s, 1, Min(n, Len(s)))

PlaceholderNews      == "test mode: no summary was generated"
PlaceholderOpinion   == "test mode: opinion analysis needs the API key"
PlaceholderSentiment == "generated once the API key is set"

\* _dummy_summary without the [:10]
dummy_summary_all(arts) ==
    [news_summary    |-> PlaceholderNews,
     opinion_summary |-> PlaceholderOpinion,
     sentiment       |-> [positive |-> PlaceholderSentiment,
                          negative |-> PlaceholderSentiment,
                          neutral  |-> PlaceholderSentiment],
     top_articles    |-> [i \in 1..Len(arts) |->
                            [rank   |-> i,
                             title  |-> arts[i].title,
                             source |-> arts[i].source,
                             url    |-> arts[i].url,
                             point  |-> Slice(arts[i].summary, PointLen) \o <<"...">>]],
     joho_picks      |-> <<>>]

\* _dummy_summary
dummy_summary(arts) ==
    LET top == Slice(arts, DummyTop)
    IN  [news_summary    |-> PlaceholderNews,
         opinion_summary |-> PlaceholderOpinion,
         sentiment       |-> [positive |-> PlaceholderSentiment,
                              negative |-> PlaceholderSentiment,
                              neutral  |-> PlaceholderSentiment],
         top_articles    |-> [i \in 1..Len(top) |->
                                [rank   |-> i,
                                 title  |-> top[i].title,
                                 source |-> top[i].source,
                                 url    |-> top[i].url,
                                 point  |-> Slice(top[i].summary, PointLen) \o <<"...">>]],
         joho_picks      |-> <<>>]

\* the i-th article of a ranked list: distinct urls, instants descending, the
\* summary a run of characters, longer than PointLen for every second article
RankedArticle(i) ==
    [source  |-> RSS_FEEDS[1 + (i % 2)],
     title   |-> <<"AI", "lab">>,
     url     |-> i,
     summary |-> [c \in 1..(IF i % 2 = 0 THEN PointLen + 10 ELSE 3) |-> "c"],
     pub_dt  |-> IsoFormat(109 - i)]

----------------------------------------------------------------------------
(* summarize_with_gemini / generate_joho_commentary: actions *)

FetchDone(n) ==
    /\ fpc = "done"
    /\ now_utc \in NowSet
    /\ max_per_feed = 1
    /\ src = NumSources + 1
    /\ feeds = [s \in 1..NumSources |-> <<>>]
    /\ idx = 1
    /\ count = 0
    /\ skipped_old = 0
    /\ articles = <<>>
    /\ unique = [i \in 1..n |-> RankedArticle(i)]
    /\ visited = 1..NumSources
    /\ failed = {}
    /\ raised_at = [s \in 1..NumSources |-> 0]
    /\ dropped = {}

InitLLM ==
    /\ \E n \in 0..MaxArticles : FetchDone(n)
    /\ fn \in {"summarize_with_gemini", "generate_joho_commentary"}
    /\ GEMINI_API_KEY \in BOOLEAN
    /\ lpc = "start"
    /\ cand = 1
    /\ invoked = <<>>
    /\ result = [kind |-> "none", value |-> <<>>]
    /\ StoreIdle
    /\ SchedIdle
    /\ PubIdle
    /\ CallIdle
    /\ LogIdle
    /\ DateIdle

\* if not GEMINI_API_KEY: return _dummy_summary(articles)
SummarizeNoKey ==
    /\ fn = "summarize_with_gemini"
    /\ lpc = "start"
    /\ ~GEMINI_API_KEY
    /\ result' = [kind |-> "fallback", value |-> dummy_summary(unique)]
    /\ lpc' = "done"
    /\ UNCHANGED <<fn, GEMINI_API_KEY, cand, invoked, fetchVars, storeVars, schedVars, pubVars, callVars, logVars, dateVars, missed>>

\* client, prompt and models_to_try are built
SummarizeBegin ==
    /\ fn = "summarize_with_gemini"
    /\ lpc = "start"
    /\ GEMINI_API_KEY
    /\ lpc' = "loop"
    /\ UNCHANGED <<fn, GEMINI_API_KEY, cand, invoked, result, fetchVars, storeVars, schedVars, pubVars, callVars, logVars, dateVars, missed>>

\* one iteration of the candidate loop
SummarizeTry ==
    /\ fn = "summarize_with_gemini"
    /\ lpc = "loop"
    /\ cand <= Len(models_to_try)
    /\ \E o \in CallOutcomes :
         LET r == ParseResponse(o, "{", "}")
         IN  /\ invoked' = Append(invoked, [model |-> models_to_try[cand], outcome |-> o])
             /\ IF r.ok
                THEN /\ result' = [kind |-> "parsed", value |-> r.value]
                     /\ lpc' = "done"
                     /\ cand' = cand
                ELSE IF ~Caught(r.err)
                THEN /\ lpc' = "raised"
                     /\ UNCHANGED <<result, cand>>
                ELSE IF OnError(r.err) = "continue"
                THEN /\ cand' = cand + 1
                     /\ UNCHANGED <<result, lpc>>
                ELSE /\ lpc' = "after"
                     /\ UNCHANGED <<result, cand>>
    /\ UNCHANGED <<fn, GEMINI_API_KEY, fetchVars, storeVars, schedVars, pubVars, callVars, logVars, dateVars, missed>>

\* the loop ended without a return: return _dummy_summary(articles)
SummarizeFallback ==
    /\ fn = "summarize_with_gemini"
    /\ \/ lpc = "after"
       \/ lpc = "loop" /\ cand > Len(models_to_try)
    /\ result' = [kind |-> "fallback", value |-> dummy_summary(unique)]
    /\ lpc' = "done"
    /\ UNCHANGED <<fn, GEMINI_API_KEY, cand, invoked, fetchVars, storeVars, schedVars, pubVars, callVars, logVars, dateVars, missed>>

\* the guard without the test of the article list
JohoGuardKeyOnly(key, arts) == ~key

\* if not GEMINI_API_KEY or not articles
JohoGuard(key, arts) == ~key \/ arts = <<>>

\* if not GEMINI_API_KEY or not articles: return []
JohoSkip ==
    /\ fn = "generate_joho_commentary"
    /\ lpc = "start"
    /\ JohoGuard(GEMINI_API_KEY, unique)
    /\ result' = [kind |-> "picks", value |-> <<>>]
    /\ lpc' = "done"
    /\ UNCHANGED <<fn, GEMINI_API_KEY, cand, invoked, fetchVars, storeVars, schedVars, pubVars, callVars, logVars, dateVars, missed>>

JohoBegin ==
    /\ fn = "generate_joho_commentary"
    /\ lpc = "start"
    /\ ~JohoGuard(GEMINI_API_KEY, unique)
    /\ lpc' = "loop"
    /\ UNCHANGED <<fn, GEMINI_API_KEY, cand, invoked, result, fetchVars, storeVars, schedVars, pubVars, callVars, logVars, dateVars, missed>>

JohoTry ==
    /\ fn = "generate_joho_commentary"
    /\ lpc = "loop"
    /\ cand <= Len(models_to_try)
    /\ \E o \in CallOutcomes :
         LET r == ParseResponse(o, "[", "]")
         IN  /\ invoked' = Append(invoked, [model |-> models_to_try[cand], outcome |-> o])
             /\ IF r.ok
                THEN /\ result' = [kind |-> "picks", value |-> r.value]
                     /\ lpc' = "done"
                     /\ cand' = cand
                ELSE IF ~Caught(r.err)
                THEN /\ lpc' = "raised"
                     /\ UNCHANGED <<result, cand>>
                ELSE IF OnError(r.err) = "continue"
                THEN /\ cand' = cand + 1
                     /\ UNCHANGED <<result, lpc>>
                ELSE /\ lpc' = "after"
                     /\ UNCHANGED <<result, cand>>
    /\ UNCHANGED <<fn, GEMINI_API_KEY, fetchVars, storeVars, schedVars, pubVars, callVars, logVars, dateVars, missed>>

\* the loop ended without a return: return []
JohoGiveUp ==
    /\ fn = "generate_joho_commentary"
    /\ \/ lpc = "after"
       \/ lpc = "loop" /\ cand > Len(models_to_try)
    /\ result' = [kind |-> "picks", value |-> <<>>]
    /\ lpc' = "done"
    /\ UNCHANGED <<fn, GEMINI_API_KEY, cand, invoked, fetchVars, storeVars, schedVars, pubVars, callVars, logVars, dateVars, missed>>

NextLLM ==
    \/ SummarizeNoKey
    \/ SummarizeBegin
    \/ SummarizeTry
    \/ SummarizeFallback
    \/ JohoSkip
    \/ JohoBegin
    \/ JohoTry
    \/ JohoGiveUp

SpecLLM == InitLLM /\ [][NextLLM]_vars

----------------------------------------------------------------------------
(* summarize_with_gemini / generate_joho_commentary: properties *)

Summarizing == fn = "summarize_with_gemini"

OpenBracket  == IF Summarizing THEN "{" ELSE "["
CloseBracket == IF Summarizing THEN "}" ELSE "]"

\* what the i-th invocation came to: a parsed value, or the error raised
Attempt(i) == ParseResponse(invoked[i].outcome, OpenBracket, CloseBracket)

\* the error text contains "429" or "quota" in any casing
HasSignature(err) ==
    \/ \E n \in Range(err.nums) : Has429(n)
    \/ \E w \in Range(err.words) : w \in {"quota", "Quota", "QUOTA"}

QuotaFailure(i) == ~Attempt(i).ok /\ HasSignature(Attempt(i).err)
OtherFailure(i) == ~Attempt(i).ok /\ ~HasSignature(Attempt(i).err)

\* the call returned text, and no JSON value was found in it or the extracted
\* JSON did not parse
UnparseableResponse(i) == invoked[i].outcome.kind = "text" /\ ~Attempt(i).ok

Fallback == [kind |-> "fallback", value |-> dummy_summary(unique)]

\* the function has returned what it returns when every attempt failed
GaveUp ==
    IF Summarizing THEN result = Fallback
    ELSE result = [kind |-> "picks", value |-> <<>>]

\* the well-formed JSON objects a text contains, as <<first, last>> positions
ObjectsIn(t) ==
    {p \in (1..Len(t)) \X (1..Len(t)) :
        /\ p[1] < p[2]
        /\ t[p[1]] = "{"
        /\ JsonScan(SubSeq(t, p[1], p[2]), 1, <<>>) = 0}

\* the first of them
FirstObject(t) ==
    LET p == CHOOSE p \in ObjectsIn(t) :
                 \A q \in ObjectsIn(t) : p[1] < q[1] \/ (p[1] = q[1] /\ p[2] <= q[2])
    IN  SubSeq(t, p[1], p[2])

\* C1: with a key configured, when the candidates before candidate k all fail
\* with a rate/quota signature and candidate k returns text that contains a
\* parseable JSON object, summarize_with_gemini returns that object and
\* invokes no candidate after k.
C1_QuotaAdvancesThenSuccess ==
    (Summarizing /\ GEMINI_API_KEY /\ lpc = "done") =>
        \A k \in 1..Len(invoked) :
            ( /\ \A i \in 1..(k - 1) : QuotaFailure(i)
              /\ invoked[k].outcome.kind = "text"
              /\ ObjectsIn(invoked[k].outcome.text) # {} )
            => /\ result = [kind  |-> "parsed",
                            value |-> JsonValue(FirstObject(invoked[k].outcome.text))]
               /\ Len(invoked) = k

\* C2: once an invoked candidate fails with an error that carries no
\* rate/quota signature, summarize_with_gemini invokes no further candidate
\* and returns the deterministic fallback.
C2_OtherErrorStopsLoop ==
    Summarizing =>
        \A i \in 1..Len(invoked) :
            OtherFailure(i) =>
                /\ i = Len(invoked)
                /\ lpc \in {"after", "done"}
                /\ lpc = "done" => result = Fallback

\* the second candidate failed with a server error after a rate limit; the
\* fallback was returned with two candidates left untried
C2_Witness ==
    /\ Summarizing
    /\ lpc = "done"
    /\ Len(invoked) = 2
    /\ QuotaFailure(1)
    /\ invoked[2].outcome.kind = "error"
    /\ OtherFailure(2)
    /\ result = Fallback

\* C3: in both functions, a response text with no JSON value in it, or whose
\* extracted JSON does not parse, ends the candidate loop at that candidate:
\* no later candidate is invoked and the fallback (the empty list) is returned.
C3_UnparseableStopsLoop ==
    \A i \in 1..Len(invoked) :
        UnparseableResponse(i) =>
            /\ i = Len(invoked)
            /\ lpc = "done" => GaveUp

\* C4: without a key, summarize_with_gemini invokes no candidate, does not
\* raise, and returns the fallback whose top_articles are the first
\* min(10, n) ranked articles in order, ranked 1..min(10, n), with the
\* placeholder texts.
C4_NoKeyFallback ==
    (Summarizing /\ ~GEMINI_API_KEY) =>
        /\ invoked = <<>>
        /\ lpc \in {"start", "done"}
        /\ lpc = "done" =>
               LET top == result.value.top_articles
                   n   == Len(unique)
               IN  /\ result.kind = "fallback"
                   /\ Len(top) = (IF n < 10 THEN n ELSE 10)
                   /\ \A i \in 1..Len(top) :
                          /\ top[i].rank = i
                          /\ top[i].title = unique[i].title
                          /\ top[i].source = unique[i].source
                          /\ top[i].url = unique[i].url
                   /\ result.value.news_summary = PlaceholderNews
                   /\ result.value.opinion_summary = PlaceholderOpinion
                   /\ \A f \in {"positive", "negative", "neutral"} :
                          result.value.sentiment[f] = PlaceholderSentiment

\* a call without a key on more than ten ranked articles
C4_Witness ==
    /\ Summarizing
    /\ ~GEMINI_API_KEY
    /\ lpc = "done"
    /\ Len(unique) > 10
    /\ Len(result.value.top_articles) = 10
    /\ result.value.top_articles[10].url = unique[10].url

\* C5: whatever each candidate produces, summarize_with_gemini does not
\* raise and returns a result: a parsed object that an invoked candidate
\* produced, or else the deterministic fallback.
C5_NeverRaises ==
    Summarizing =>
        /\ lpc # "raised"
        /\ lpc = "done" =>
               /\ result.kind \in {"parsed", "fallback"}
               /\ result.kind = "parsed" =>
                      /\ invoked # <<>>
                      /\ Attempt(Len(invoked)).ok
                      /\ result.value = Attempt(Len(invoked)).value
               /\ (\A i \in 1..Len(invoked) : ~Attempt(i).ok) => result = Fallback

\* every candidate failed with a rate/quota signature, one of the failures an
\* unparseable response, and the fallback was returned
C5_Witness ==
    /\ Summarizing
    /\ lpc = "done"
    /\ Len(invoked) = Len(models_to_try)
    /\ \A i \in 1..Len(invoked) : QuotaFailure(i)
    /\ \E i \in 1..Len(invoked) : invoked[i].outcome.kind = "error"
    /\ \E i \in 1..Len(invoked) : UnparseableResponse(i)
    /\ result = Fallback

\* C28: when the text of the last candidate invoked contains a well-formed
\* JSON object, inside fence markers or not, with other text before or after
\* it or not (a closing brace or a second object after it included),
\* summarize_with_gemini returns the first balanced object of the text, parsed.
C28_FirstObjectExtracted ==
    (Summarizing /\ lpc = "done" /\ invoked # <<>>) =>
        LET last == invoked[Len(invoked)].outcome
        IN  (last.kind = "text" /\ ObjectsIn(last.text) # {}) =>
                result = [kind |-> "parsed", value |-> JsonValue(FirstObject(last.text))]

----------------------------------------------------------------------------
(* main, save_data, load_history: helpers *)

MaxRuns    == 2     \* runs of main in one behaviour
MaxTicks   == 3     \* clock ticks in one behaviour
MaxFetched == 1     \* longest list fetch_articles hands to main

HistoryCap == 12    \* data_files[:12]
RawCap     == 15    \* articles[:15]

\* The clock counts ticks of half a minute: two runs can save within one
\* minute at different instants.
TicksPerMinute == 2

Minute(t) == t \div TicksPerMinute

\* now.strftime("%Y%m%d_%H%M"), reduced to the minute count, zero-padded to two digits
strftime(t) == <<Minute(t) \div 10, Minute(t) % 10>>

\* DATA_DIR / f"news_{timestamp}.json"
NewsFile(timestamp) == [prefix |-> "news_", stamp |-> timestamp]

\* DATA_DIR / "latest.json"
latest_path == [prefix |-> "latest", stamp |-> <<>>]

\* File contents: a file just opened with "w", bytes that json.load rejects,
\* and the text json.dump writes for a value.
Empty   == [bytes |-> "empty"]
Corrupt == [bytes |-> "corrupt"]
Json(v) == [bytes |-> "json", value |-> v]

NoData == [bytes |-> "none"]

\* filepath before save_data has assigned it
NoPath == [prefix |-> "none", stamp |-> <<>>]

\* the directory after path holds content c
Put(dir, path, c) == [n \in (DOMAIN dir) \cup {path} |-> IF n = path THEN c ELSE dir[n]]

\* the dict save_data builds (time_slot left out), now read off the clock
Snapshot(now, summary, arts) ==
    [timestamp |-> now, summary |-> summary, raw_articles |-> Slice(arts, RawCap)]

\* the dict rebuilt from a second clock reading
LatestDataRebuilt(d, now) == [d EXCEPT !.timestamp = now]

\* json.dump(data, f) into latest.json: the dict dumped into the timestamped file
LatestData(d, now) == d

\* DATA_DIR.glob("news_*.json")
glob(dir) == {n \in DOMAIN dir : n.prefix = "news_"}

\* sorted(paths): the names of one directory, least first
RECURSIVE SortedForward(_)
SortedForward(S) ==
    IF S = {} THEN <<>>
    ELSE LET m == CHOOSE x \in S : \A y \in S \ {x} : StrLess(x.stamp, y.stamp)
         IN  <<m>> \o SortedForward(S \ {m})

\* sorted(paths, reverse=True): the names of one directory, greatest first
RECURSIVE SortedReverse(_)
SortedReverse(S) ==
    IF S = {} THEN <<>>
    ELSE LET m == CHOOSE x \in S : \A y \in S \ {x} : StrLess(y.stamp, x.stamp)
         IN  <<m>> \o SortedReverse(S \ {m})

\* the loop over every file, without the [:12]
HistoryFilesAll(data_files) == data_files

\* data_files[:12]
HistoryFiles(data_files) == Slice(data_files, HistoryCap)

\* the for loop of load_history: json.load raises on a file that does not
\* parse, and the except branch continues with the next file
RECURSIVE ReadAll(_, _)
ReadAll(fs, dir) ==
    IF fs = <<>> THEN <<>>
    ELSE IF dir[Head(fs)].bytes = "json"
         THEN <<dir[Head(fs)].value>> \o ReadAll(Tail(fs), dir)
         ELSE ReadAll(Tail(fs), dir)

load_history(dir) == ReadAll(HistoryFiles(SortedReverse(glob(dir))), dir)

----------------------------------------------------------------------------
(* main, save_data, load_history: actions *)

\* a snapshot an earlier run left in minute m
OldSnapshot(m) == Snapshot(m * TicksPerMinute, "parsed", <<>>)

\* how many timestamped files the directory holds when the first run starts
OldCounts == {0, HistoryCap - 1, HistoryCap + 1}

\* which of these files does not parse (0: none)
OldCorrupt == {0, 1, 7}

\* the first clock reading: later than every file already there
FirstTick == TicksPerMinute * (HistoryCap + 2)

\* the positions at which a run of main is over
Finished == {"returned", "done", "raised", "killed"}

InitStore ==
    /\ FetchDone(0)
    /\ LLMIdle
    /\ mpc = "start"
    /\ runs = 1
    /\ clock = FirstTick
    /\ \E k \in OldCounts, bad \in OldCorrupt :
          /\ bad <= k
          /\ DATA_DIR =
                LET old == [m \in 1..k |-> IF m = bad THEN Corrupt ELSE Json(OldSnapshot(m))]
                    named == {NewsFile(strftime(m * TicksPerMinute)) : m \in 1..k}
                    stampOf(n) == CHOOSE m \in 1..k : n = NewsFile(strftime(m * TicksPerMinute))
                IN  [n \in named \cup (IF k > 0 THEN {latest_path} ELSE {}) |->
                        IF n = latest_path THEN Json(OldSnapshot(k)) ELSE old[stampOf(n)]]
    /\ data = NoData
    /\ filepath = NoPath
    /\ history = <<>>
    /\ SchedIdle
    /\ PubIdle
    /\ CallIdle
    /\ LogIdle
    /\ DateIdle

\* time passes
Tick ==
    /\ clock < FirstTick + MaxTicks
    /\ clock' = clock + 1
    /\ UNCHANGED <<mpc, DATA_DIR, data, filepath, history, runs, fetchVars, llmVars, schedVars, pubVars, callVars, logVars, dateVars, missed>>

\* python fetch_news.py is started again, once the previous run is over
NewRun ==
    /\ mpc \in Finished
    /\ runs < MaxRuns
    /\ runs' = runs + 1
    /\ mpc' = "start"
    /\ data' = NoData
    /\ filepath' = NoPath
    /\ history' = <<>>
    /\ unique' = <<>>
    /\ result' = [kind |-> "none", value |-> <<>>]
    /\ UNCHANGED <<clock, DATA_DIR, fpc, now_utc, max_per_feed, src, feeds, idx, count,
                   skipped_old, articles, visited, failed, raised_at, dropped,
                   fn, GEMINI_API_KEY, lpc, cand, invoked, schedVars, pubVars, callVars, logVars, dateVars, missed>>

\* articles = fetch_articles(max_per_feed=5); if not articles: return
MainFetch ==
    /\ mpc = "start"
    /\ \E n \in 0..MaxFetched : unique' = [i \in 1..n |-> RankedArticle(i)]
    /\ mpc' = IF unique' = <<>> THEN "returned" ELSE "summarize"
    /\ UNCHANGED <<clock, DATA_DIR, data, filepath, history, runs, result,
                   fpc, now_utc, max_per_feed, src, feeds, idx, count,
                   skipped_old, articles, visited, failed, raised_at, dropped,
                   fn, GEMINI_API_KEY, lpc, cand, invoked, schedVars, pubVars, callVars, logVars, dateVars, missed>>

\* summary = summarize_with_gemini(articles); summary["joho_picks"] = generate_joho_commentary(articles)
MainSummarize ==
    /\ mpc = "summarize"
    /\ \E k \in {"parsed", "fallback"} :
          result' = [kind |-> k, value |-> <<>>]
    /\ mpc' = "save"
    /\ UNCHANGED <<clock, DATA_DIR, data, filepath, history, runs, fetchVars,
                   fn, GEMINI_API_KEY, lpc, cand, invoked, schedVars, pubVars, callVars, logVars, dateVars, missed>>

\* save_data up to open(filepath, "w"): the name and the dict are built from
\* one clock reading, and opening truncates
SaveOpenArchive ==
    /\ mpc = "save"
    /\ data' = Snapshot(clock, result.kind, unique)
    /\ filepath' = NewsFile(strftime(clock))
    /\ DATA_DIR' = Put(DATA_DIR, filepath', Empty)
    /\ mpc' = "archive_open"
    /\ UNCHANGED <<clock, history, runs, fetchVars, llmVars, schedVars, pubVars, callVars, logVars, dateVars, missed>>

\* json.dump(data, f) and the end of the with block
SaveDumpArchive ==
    /\ mpc = "archive_open"
    /\ DATA_DIR' = Put(DATA_DIR, filepath, Json(data))
    /\ mpc' = "archive_closed"
    /\ UNCHANGED <<clock, data, filepath, history, runs, fetchVars, llmVars, schedVars, pubVars, callVars, logVars, dateVars, missed>>

\* open(latest_path, "w")
SaveOpenLatest ==
    /\ mpc = "archive_closed"
    /\ DATA_DIR' = Put(DATA_DIR, latest_path, Empty)
    /\ mpc' = "latest_open"
    /\ UNCHANGED <<clock, data, filepath, history, runs, fetchVars, llmVars, schedVars, pubVars, callVars, logVars, dateVars, missed>>

\* json.dump(data, f), the end of the with block, return filepath
SaveDumpLatest ==
    /\ mpc = "latest_open"
    /\ DATA_DIR' = Put(DATA_DIR, latest_path, Json(LatestData(data, clock)))
    /\ mpc' = "saved"
    /\ UNCHANGED <<clock, data, filepath, history, runs, fetchVars, llmVars, schedVars, pubVars, callVars, logVars, dateVars, missed>>

\* history = load_history()
LoadHistory ==
    /\ mpc = "saved"
    /\ history' = load_history(DATA_DIR)
    /\ mpc' = "loaded"
    /\ UNCHANGED <<clock, DATA_DIR, data, filepath, runs, fetchVars, llmVars, schedVars, pubVars, callVars, logVars, dateVars, missed>>

\* generate_html, upload_to_ftp, log("=== 完了 ===")
MainPublish ==
    /\ mpc = "loaded"
    /\ mpc' = "done"
    /\ UNCHANGED <<clock, DATA_DIR, data, filepath, history, runs, fetchVars, llmVars, schedVars, pubVars, callVars, logVars, dateVars, missed>>

\* generate_html raises KeyError on a parsed summary whose top_articles entry
\* lacks a key: the error leaves main after the snapshot was saved
MainPublishRaises ==
    /\ mpc = "loaded"
    /\ result.kind = "parsed"
    /\ mpc' = "raised"
    /\ UNCHANGED <<clock, DATA_DIR, data, filepath, history, runs, fetchVars, llmVars, schedVars, pubVars, callVars, logVars, dateVars, missed>>

\* The process is ended from outside before main returns.  A file it has
\* open keeps the bytes flushed so far: none, or a part of the text.
Kill ==
    /\ mpc \notin Finished
    /\ mpc' = "killed"
    /\ DATA_DIR' = CASE mpc = "archive_open" -> Put(DATA_DIR, filepath, Corrupt)
                     [] mpc = "latest_open"  -> Put(DATA_DIR, latest_path, Corrupt)
                     [] OTHER                -> DATA_DIR
    /\ UNCHANGED <<clock, data, filepath, history, runs, fetchVars, llmVars, schedVars, pubVars, callVars, logVars, dateVars, missed>>

KillEmpty ==
    /\ mpc \in {"archive_open", "latest_open"}
    /\ mpc' = "killed"
    /\ UNCHANGED <<clock, DATA_DIR, data, filepath, history, runs, fetchVars, llmVars, schedVars, pubVars, callVars, logVars, dateVars, missed>>

NextStore ==
    \/ Tick
    \/ NewRun
    \/ MainFetch
    \/ MainSummarize
    \/ SaveOpenArchive
    \/ SaveDumpArchive
    \/ SaveOpenLatest
    \/ SaveDumpLatest
    \/ LoadHistory
    \/ MainPublish
    \/ MainPublishRaises
    \/ Kill
    \/ KillEmpty

SpecStore == InitStore /\ [][NextStore]_vars

----------------------------------------------------------------------------
(* main, save_data, load_history: properties *)

\* main has returned, by the early return or at its end
Returned == mpc \in {"returned", "done"}

\* the run has written its snapshot to a timestamped file and to latest.json
SavedBoth ==
    /\ filepath.prefix = "news_"
    /\ filepath \in DOMAIN DATA_DIR
    /\ DATA_DIR[filepath] = Json(data)
    /\ latest_path \in DOMAIN DATA_DIR
    /\ DATA_DIR[latest_path] = Json(data)

\* C11: every run of main that returns has written one timestamped snapshot
\* file and has overwritten latest.json, whatever fetch_articles returned (the
\* empty list included) and whatever the summarization produced.
C11_EveryRunSaves == Returned => SavedBoth

\* save_data has completed in the current run
SaveCompleted == mpc \in {"saved", "loaded", "done"}

\* C12: once save_data has completed in a run, latest.json and the run's
\* timestamped file hold the same content.
C12_LatestEqualsArchive ==
    SaveCompleted =>
        /\ filepath \in DOMAIN DATA_DIR
        /\ latest_path \in DOMAIN DATA_DIR
        /\ DATA_DIR[latest_path] = DATA_DIR[filepath]
        /\ DATA_DIR[latest_path].bytes = "json"

\* the second run has completed save_data, the clock having advanced between
\* its two writes, over a latest.json an earlier run had written
C12_Witness ==
    /\ mpc = "saved"
    /\ runs = 2
    /\ clock > data.timestamp
    /\ data.timestamp > FirstTick
    /\ DATA_DIR[latest_path] = Json(data)

\* the timestamped files that hold a snapshot a run has written
Written(dir) == {f \in glob(dir) : dir[f].bytes = "json"}

\* C13: a timestamped snapshot file, once a run has written it, is never
\* modified or overwritten afterwards: every step leaves every written
\* timestamped file in place with the content it has.
C13_ArchiveImmutable ==
    [][\A f \in Written(DATA_DIR) :
          f \in DOMAIN DATA_DIR' /\ DATA_DIR'[f] = DATA_DIR[f]]_vars

\* the minute a timestamped file is named after
StampMinute(f) == 10 * f.stamp[1] + f.stamp[2]

\* the timestamped files with fewer than 12 timestamped files after them
MostRecent(dir) ==
    {f \in glob(dir) :
        Cardinality({g \in glob(dir) : StampMinute(g) > StampMinute(f)}) < HistoryCap}

\* those of the most recent files that parse
Readable(dir) == {f \in MostRecent(dir) : dir[f].bytes = "json"}

\* C14: load_history returns, most recent first, the content of exactly those
\* of the 12 most recent timestamped files that parse; a file that does not
\* parse is left out and the files after it are still read; the result has at
\* most 12 entries, in the reverse of the order in which they were written.
C14_HistoryLoaded ==
    mpc = "loaded" =>
        /\ Len(history) = Cardinality(Readable(DATA_DIR))
        /\ Len(history) <= HistoryCap
        /\ \A i \in 1..Len(history) :
              \E f \in Readable(DATA_DIR) :
                 /\ history[i] = DATA_DIR[f].value
                 /\ Cardinality({g \in Readable(DATA_DIR) : StampMinute(g) > StampMinute(f)}) = i - 1
        /\ \A i, j \in 1..Len(history) :
              i < j => history[i].timestamp > history[j].timestamp

\* more than 12 timestamped files, one of the 12 most recent does not parse
\* and is neither the first nor the last of them: 11 entries are returned
C14_Witness ==
    /\ mpc = "loaded"
    /\ Cardinality(glob(DATA_DIR)) > HistoryCap
    /\ \E f \in MostRecent(DATA_DIR) :
          /\ DATA_DIR[f].bytes # "json"
          /\ \E g, h \in Readable(DATA_DIR) : StampMinute(g) < StampMinute(f) /\ StampMinute(f) < StampMinute(h)
    /\ Len(history) = HistoryCap - 1
    /\ history[1] = data

\* the run is past load_history
HistoryInHand == mpc \in {"loaded", "done", "raised"}

\* C31: a run loads the history only after save_data has completed, and
\* nothing is loaded before; the history the run then holds, the one handed
\* to generate_html, has the run's own snapshot as its first entry, and after
\* it at most 11 entries, all of them snapshots of earlier instants.
C31_OwnSnapshotFirst ==
    /\ [][(mpc # "loaded" /\ mpc' = "loaded") =>
             /\ mpc = "saved"
             /\ filepath \in DOMAIN DATA_DIR
             /\ DATA_DIR[filepath] = [bytes |-> "json", value |-> data]]_vars
    /\ [](mpc \in {"start", "summarize", "save", "archive_open", "archive_closed",
                   "latest_open", "saved"} => history = <<>>)
    /\ [](HistoryInHand =>
             /\ Len(history) >= 1
             /\ history[1] = data
             /\ Len(history) - 1 <= 11
             /\ \A i \in 2..Len(history) : history[i].timestamp < data.timestamp)

\* the second run has loaded twelve entries: its own snapshot, the snapshot
\* of the run before it, and ten older ones, with older files left unread
C31_Witness ==
    /\ mpc = "loaded"
    /\ runs = 2
    /\ Len(history) = 12
    /\ history[1] = data
    /\ history[2].timestamp >= FirstTick
    /\ Cardinality(glob(DATA_DIR)) > 12

\* C26: the two files of a run are written atomically: in every state,
\* whether save_data is under way, has been cut short or is over, the run's
\* timestamped file and latest.json are absent or hold a whole snapshot, and
\* while the run's timestamped file is there latest.json holds that run's
\* snapshot too.
C26_AtomicSnapshot ==
    /\ filepath \in DOMAIN DATA_DIR => DATA_DIR[filepath].bytes = "json"
    /\ latest_path \in DOMAIN DATA_DIR => DATA_DIR[latest_path].bytes = "json"
    /\ filepath \in DOMAIN DATA_DIR =>
          /\ latest_path \in DOMAIN DATA_DIR
          /\ DATA_DIR[latest_path] = DATA_DIR[filepath]

----------------------------------------------------------------------------
(* scheduler_loop.py: helpers *)

(***************************************************************************)
(* Scheduler time is counted in whole minutes.  now_jst is kept within the *)
(* current day: when the clock passes midnight, now_jst and next_run are   *)
(* both moved back by one day, which changes no difference between them    *)
(* and no time of day.                                                     *)
(***************************************************************************)

MaxOvershoot == 1     \* minutes a time.sleep call may return late
LongRun      == 250   \* minutes the longest child run takes

MinutesPerHour == 60
MinutesPerDay  == 24 * MinutesPerHour

SCHEDULE_HOURS == <<6, 12, 16, 20>>

SleepChunk == 5       \* time.sleep(300): 300 seconds

\* how long a child process may run: no time, a few minutes, past the next trigger
RunMinutes == {0, 7, LongRun}

\* now.replace(hour=hour, minute=0, second=0, microsecond=0)
Replace(t, hour) == (t \div MinutesPerDay) * MinutesPerDay + hour * MinutesPerHour

\* the test with the trigger instant itself let through
AfterOrAt(candidate, t) == candidate >= t

\* candidate > now
After(candidate, t) == candidate > t

\* the for loop of get_next_run over the hours not yet tried
RECURSIVE FirstCandidate(_, _)
FirstCandidate(hours, t) ==
    IF hours = <<>>
    THEN Replace(t + MinutesPerDay, SCHEDULE_HOURS[1])
    ELSE IF After(Replace(t, Head(hours)), t)
         THEN Replace(t, Head(hours))
         ELSE FirstCandidate(Tail(hours), t)

get_next_run(t) == FirstCandidate(SCHEDULE_HOURS, t)

\* sleeping for the whole remaining wait in one call
SleepArgWhole(r) == r

\* if remaining > 300: time.sleep(300) else: time.sleep(remaining)
SleepArg(r) == IF r > SleepChunk THEN SleepChunk ELSE r

\* the start of the day the instant t lies in
DayStart(t) == (t \div MinutesPerDay) * MinutesPerDay

\* an instant after the clock has been moved back by d minutes
Shift(t, d) == IF t = Unset THEN Unset ELSE t - d

\* main goes on to the loop without the first run
AfterBootNoRun(logs) == IF logs THEN "returned" ELSE "crashed"

\* main up to run_fetch(): log opens a file in the logs directory and raises
\* when the directory is missing
AfterBoot(logs) == IF logs THEN "run_fetch" ELSE "crashed"

\* run_fetch without the except branch, and with a check of the exit status
AfterChildRaise(o) == IF o = "ok" THEN "returned" ELSE "crashed"

\* run_fetch returns to its caller whatever the child did
AfterChild(o) == "returned"

\* run_fetch, lines 42-46: the entries logged when subprocess.run has returned:
\* the lines of result.stdout if there are any, and an [ERROR] entry
\* if result.returncode != 0 and result.stderr
RunLog(o, out, err) ==
    (IF out THEN <<"output">> ELSE <<>>) \o (IF o # "ok" /\ err THEN <<"ERROR">> ELSE <<>>)

\* a trigger time of the day of instant a, or of the next day, lies in (a, b]
TriggerWithin(a, b) ==
    \E k \in {0, 1}, i \in 1..Len(SCHEDULE_HOURS) :
        LET t == DayStart(a) + k * MinutesPerDay + SCHEDULE_HOURS[i] * MinutesPerHour
        IN  a < t /\ t <= b

\* the next target taken from the previous target, not from the clock
NextTargetQueued(now, prev) == IF prev = Unset THEN get_next_run(now) ELSE get_next_run(prev)

\* main, line 78: next_run = get_next_run(), from the clock as it is then
NextTarget(now, prev) == get_next_run(now)

\* a call that starts the child and does not wait for it
WaitOverNoBlock(n) == TRUE

\* subprocess.run returns once the child has exited
WaitOver(n) == n = 0

----------------------------------------------------------------------------
(* scheduler_loop.py: actions *)

\* the positions at which the scheduler process is over
Over == {"stopped", "crashed"}

InitSched ==
    /\ FetchDone(0)
    /\ LLMIdle
    /\ StoreIdle
    /\ PubIdle
    /\ CallIdle
    /\ LogIdle
    /\ DateIdle
    /\ spc = "main"
    /\ now_jst \in 0..(MinutesPerDay - 1)
    /\ next_run = Unset
    /\ remaining = 0
    /\ slept = 0
    /\ caller = "none"
    /\ live = 0
    /\ outcome = "none"
    /\ logs_exist \in BOOLEAN

\* d minutes pass
Elapse(d) ==
    /\ now_jst' = now_jst + d - DayStart(now_jst + d)
    /\ next_run' = Shift(next_run, DayStart(now_jst + d))

\* main, lines 67-75: the start-up log lines and the call of run_fetch
Boot ==
    /\ spc = "main"
    /\ spc' = AfterBoot(logs_exist)
    /\ caller' = IF spc' = "run_fetch" THEN "cold" ELSE caller
    /\ UNCHANGED <<now_jst, next_run, remaining, slept, live, outcome, logs_exist,
                   fetchVars, llmVars, storeVars, pubVars, callVars, logVars, dateVars, missed>>

\* run_fetch, lines 33-41: the child process is started (fetch_news.py makes
\* the logs directory when it is loaded)
Launch ==
    /\ spc = "run_fetch"
    /\ live' = live + 1
    /\ logs_exist' = TRUE
    /\ spc' = "subprocess"
    /\ missed' = FALSE
    /\ scheduler_log' = <<"start">>
    /\ UNCHANGED <<now_jst, next_run, remaining, slept, caller, outcome,
                   stdout, stderr,
                   fetchVars, llmVars, storeVars, pubVars, callVars, dateVars>>

\* run_fetch, lines 37-48: starting the child raises, the except branch logs it
LaunchFails ==
    /\ spc = "run_fetch"
    /\ outcome' = "launch_failed"
    /\ spc' = AfterChild(outcome')
    /\ missed' = FALSE
    /\ scheduler_log' = <<"start", "ERROR">>
    /\ UNCHANGED <<now_jst, next_run, remaining, slept, caller, live, logs_exist,
                   stdout, stderr,
                   fetchVars, llmVars, storeVars, pubVars, callVars, dateVars>>

\* the child process runs for d minutes and exits
ChildExits ==
    /\ live > 0
    /\ spc \notin Over
    /\ \E d \in RunMinutes :
          /\ Elapse(d)
          /\ missed' = TriggerWithin(now_jst, now_jst + d)
    /\ \E o \in {"ok", "nonzero"} : outcome' = o
    /\ live' = live - 1
    /\ stdout' \in BOOLEAN
    /\ stderr' \in BOOLEAN
    /\ UNCHANGED <<spc, remaining, slept, caller, logs_exist,
                   scheduler_log,
                   fetchVars, llmVars, storeVars, pubVars, callVars, dateVars>>

\* run_fetch, lines 41-46: subprocess.run returns, the output is logged
WaitReturns ==
    /\ spc = "subprocess"
    /\ WaitOver(live)
    /\ spc' = AfterChild(outcome)
    /\ scheduler_log' = scheduler_log \o RunLog(outcome, stdout, stderr)
    /\ UNCHANGED <<now_jst, next_run, remaining, slept, caller, live, outcome, logs_exist,
                   stdout, stderr,
                   fetchVars, llmVars, storeVars, pubVars, callVars, dateVars, missed>>

\* main, lines 78-83: next_run = get_next_run()
NextRun ==
    /\ spc = "returned"
    /\ next_run' = NextTarget(now_jst, next_run)
    /\ spc' = "wait"
    /\ UNCHANGED <<now_jst, remaining, slept, caller, live, outcome, logs_exist,
                   fetchVars, llmVars, storeVars, pubVars, callVars, logVars, dateVars, missed>>

\* main, lines 87-91: the clock is read, the loop ends or remaining is computed
Check ==
    /\ spc = "wait"
    /\ IF now_jst >= next_run
       THEN /\ spc' = "reached"
            /\ UNCHANGED remaining
       ELSE /\ remaining' = next_run - now_jst
            /\ spc' = "sleep"
    /\ UNCHANGED <<now_jst, next_run, slept, caller, live, outcome, logs_exist,
                   fetchVars, llmVars, storeVars, pubVars, callVars, logVars, dateVars, missed>>

\* main, lines 92-96: one time.sleep call, which returns on time or late
Sleep ==
    /\ spc = "sleep"
    /\ slept' = SleepArg(remaining)
    /\ \E late \in 0..MaxOvershoot : Elapse(slept' + late)
    /\ spc' = IF remaining > SleepChunk THEN "wait" ELSE "reached"
    /\ UNCHANGED <<remaining, caller, live, outcome, logs_exist,
                   fetchVars, llmVars, storeVars, pubVars, callVars, logVars, dateVars, missed>>

\* main, lines 98-99: the log line and the call of run_fetch
Reached ==
    /\ spc = "reached"
    /\ caller' = "scheduled"
    /\ spc' = "run_fetch"
    /\ UNCHANGED <<now_jst, next_run, remaining, slept, live, outcome, logs_exist,
                   fetchVars, llmVars, storeVars, pubVars, callVars, logVars, dateVars, missed>>

\* KeyboardInterrupt is raised wherever the scheduler is and reaches the
\* handler of lines 105-106; subprocess.run kills a child it is waiting for
Interrupt ==
    /\ spc \notin Over
    /\ spc' = "stopped"
    /\ live' = 0
    /\ UNCHANGED <<now_jst, next_run, remaining, slept, caller, outcome, logs_exist,
                   fetchVars, llmVars, storeVars, pubVars, callVars, logVars, dateVars, missed>>

\* the steps of the scheduler process itself
SchedStep ==
    \/ Boot
    \/ Launch
    \/ LaunchFails
    \/ WaitReturns
    \/ NextRun
    \/ Check
    \/ Sleep
    \/ Reached

NextSched ==
    \/ Boot
    \/ Launch
    \/ LaunchFails
    \/ ChildExits
    \/ WaitReturns
    \/ NextRun
    \/ Check
    \/ Sleep
    \/ Reached
    \/ Interrupt

SpecSched == InitSched /\ [][NextSched]_vars

\* The scheduler is one sequential process that is never held back except by
\* the child it waits for and by time.sleep, which returns: its steps are
\* taken whenever one is possible.  Nothing makes a child exit or an
\* interrupt arrive.
SpecSchedFair == SpecSched /\ WF_vars(SchedStep)

----------------------------------------------------------------------------
(* scheduler_loop.py: properties *)

\* 06:00, 12:00, 16:00 and 20:00 of the current day and of the next
TriggerInstants ==
    {d * 1440 + h * 60 : d \in {0, 1}, h \in {6, 12, 16, 20}}

\* the earliest trigger instant strictly after t
EarliestAfter(t) ==
    CHOOSE x \in TriggerInstants :
        x > t /\ \A y \in TriggerInstants : y > t => x <= y

\* C15: whatever the instant at which get_next_run is called, it returns the
\* earliest of 06:00, 12:00, 16:00, 20:00 that is strictly after that instant,
\* 06:00 of the next day when all four have passed: at 21:00 it is 06:00 of
\* the next day, at 05:00 it is 06:00 of the same day, and at a trigger time
\* it is the trigger that follows.
C15_NextTrigger ==
    [][(spc = "returned" /\ spc' = "wait") =>
          /\ next_run' = EarliestAfter(now_jst)
          /\ next_run' > now_jst
          /\ (now_jst = 21 * 60 => next_run' = 1440 + 6 * 60)
          /\ (now_jst = 5 * 60 => next_run' = 6 * 60)
          /\ (now_jst = 6 * 60 => next_run' = 12 * 60)
          /\ (now_jst = 20 * 60 => next_run' = 1440 + 6 * 60)]_vars

\* get_next_run was called at 20:00 sharp and returned 06:00 of the next day
C15_Witness ==
    /\ spc = "wait"
    /\ now_jst = 20 * 60
    /\ next_run = 1440 + 6 * 60

\* the scheduler is computing the next trigger, waiting for it, or has waited
InLoop == spc \in {"wait", "sleep", "reached"} \/ next_run # Unset \/ slept # 0

RunFailed == outcome \in {"nonzero", "launch_failed"}

\* C17: a child run that failed (non-zero exit status, or the child could not
\* be started) does not end the scheduler; after run_fetch has returned, with
\* any outcome, the scheduler goes on to compute the next trigger and, unless
\* it is interrupted from outside, calls run_fetch again.
C17_LoopGoesOn ==
    /\ [](RunFailed => spc # "crashed")
    /\ [][(spc \in {"run_fetch", "subprocess"} /\ spc' \notin {spc, "stopped", "subprocess"})
             => spc' = "returned"]_vars
    /\ [][(spc = "returned" /\ spc' # "stopped") =>
             (spc' \in {"returned", "wait"} /\ (spc' = "wait" => next_run' > now_jst))]_vars
    /\ (spc = "returned") ~> (spc = "run_fetch" \/ spc = "stopped")

\* after a child that could not be started, the trigger instant has been
\* waited for and run_fetch is called again
C17_Witness ==
    /\ spc = "run_fetch"
    /\ caller = "scheduled"
    /\ outcome = "launch_failed"
    /\ now_jst >= next_run

\* the scheduler is neither inside run_fetch nor over
OutsideRun == spc \in {"main", "run_fetch", "returned", "wait", "sleep", "reached"}

\* C18: the scheduler runs the pipeline serially: at most one child process
\* it has started is executing, and while one is executing the scheduler is
\* inside the run_fetch call that started it, so none is started before the
\* previous one has exited.
C18_Serial ==
    /\ live <= 1
    /\ (OutsideRun => live = 0)

\* the run started at a trigger is executing, an earlier run having exited
C18_Witness ==
    /\ spc = "subprocess"
    /\ caller = "scheduled"
    /\ live = 1
    /\ outcome \in {"ok", "nonzero"}

\* C19: an interrupt that arrives while a pipeline run is executing does not
\* stop the scheduler during that run: the scheduler stops only from a
\* position between two runs or between two sleep calls.
C19_NoStopMidRun ==
    [][(spc = "subprocess" /\ live > 0) => spc' # "stopped"]_vars

\* the run started because a trigger was waited for is about to start or executing
TriggeredRun == caller = "scheduled" /\ spc \in {"run_fetch", "subprocess"}

\* C20: while waiting for a trigger no single time.sleep call is asked for
\* more than 300 seconds (5 minutes); the argument of each call is the
\* remaining wait at the clock reading taken just before it, cut to 5
\* minutes; and the triggered run is not started before the clock has
\* reached the trigger instant.
C20_BoundedSleep ==
    /\ [](slept <= 5)
    /\ [][(spc = "sleep" /\ spc' \notin {"sleep", "stopped"}) =>
             /\ next_run > now_jst
             /\ slept' = (IF next_run - now_jst < 5 THEN next_run - now_jst ELSE 5)]_vars
    /\ []((spc = "reached" \/ TriggeredRun) => now_jst >= next_run)

\* a last sleep of three minutes has ended late, one minute past the trigger
\* instant, and the triggered run is about to start
C20_Witness ==
    /\ spc = "run_fetch"
    /\ caller = "scheduled"
    /\ slept = 3
    /\ now_jst = next_run + 1

\* C30: a trigger time that passes while a run is executing is skipped: the
\* target computed after the run is a trigger time strictly after the clock
\* reading of that computation with no trigger time between the two, so it is
\* not the one that was missed; a child is started only when none is
\* executing, by the cold start or at a target that has been reached; and
\* every target is later than the one before it, so that no trigger instant
\* starts more than one run.
C30_TriggerSkipped ==
    /\ [][(spc = "returned" /\ spc' = "wait") =>
             /\ next_run' > now_jst
             /\ \E k \in {0, 1}, h \in {6, 12, 16, 20} : next_run' = k * 1440 + h * 60
             /\ ~\E k \in {0, 1}, h \in {6, 12, 16, 20} :
                    now_jst < k * 1440 + h * 60 /\ k * 1440 + h * 60 < next_run'
             /\ (next_run # Unset => next_run' > next_run)]_vars
    /\ [][live' > live =>
             /\ live = 0
             /\ \/ caller = "cold" /\ next_run = Unset
                \/ caller = "scheduled" /\ now_jst >= next_run]_vars

\* a run started at 12:00 was still executing at 16:00; the run after it is
\* about to start at 20:00
C30_Witness ==
    /\ spc = "run_fetch"
    /\ caller = "scheduled"
    /\ missed
    /\ next_run = 20 * 60
    /\ now_jst >= next_run

\* C25: a missing logs directory is never fatal: the scheduler does not end
\* in a crash when it starts without one, its first log call succeeds, and
\* once it is past its start-up lines the directory exists.
C25_SelfHealing ==
    /\ spc # "crashed"
    /\ spc \notin {"idle", "main"} => logs_exist

\* C27: when run_fetch has returned after a child that ended with a non-zero
\* exit status, the entries it logged include an error entry, whether or not
\* the child wrote anything to its error output.
C27_NonZeroLogged ==
    (spc = "returned" /\ outcome = "nonzero") =>
        \E i \in 1..Len(scheduler_log) : scheduler_log[i] = "ERROR"

----------------------------------------------------------------------------
(* generate_joho_commentary: properties *)

NoPicks == [kind |-> "picks", value |-> <<>>]

\* every candidate of the list was invoked and failed with a rate/quota signature
Exhausted ==
    /\ Len(invoked) = Len(models_to_try)
    /\ \A i \in 1..Len(invoked) : QuotaFailure(i)

\* C21: generate_joho_commentary never raises; it returns the empty list when
\* the key is missing, when the article list is empty, when every candidate
\* failed with a rate/quota signature, and when a candidate failed with an
\* error that carries no such signature; without a key (and with no article)
\* no candidate is invoked.
C21_JohoEmptyList ==
    (fn = "generate_joho_commentary") =>
        /\ lpc # "raised"
        /\ (~GEMINI_API_KEY \/ unique = <<>>) => invoked = <<>>
        /\ ( /\ lpc = "done"
             /\ \/ ~GEMINI_API_KEY
                \/ unique = <<>>
                \/ Exhausted
                \/ \E i \in 1..Len(invoked) : OtherFailure(i) )
           => result = NoPicks

\* all four candidates failed with a rate/quota signature and the empty list
\* was returned
C21_Witness ==
    /\ fn = "generate_joho_commentary"
    /\ lpc = "done"
    /\ Exhausted
    /\ result = NoPicks

----------------------------------------------------------------------------
(* generate_html, upload_to_ftp: helpers *)

(***************************************************************************)
(* A dict is a function from its keys; a key the dict lacks is outside its *)
(* domain.  d[k] raises KeyError on such a key, d.get(k, default) does not.*)
(***************************************************************************)

Has(d, k) == k \in DOMAIN d

\* d.get(k, default)
Get(d, k, default) == IF Has(d, k) THEN d[k] ELSE default

\* the dict d without the keys in K
Without(d, K) == [k \in (DOMAIN d) \ K |-> d[k]]

HistShown    == 8     \* history[:8]
HistArticles == 5     \* hist["summary"].get("top_articles", [])[:5]
FtpTimeout   == 30    \* ftplib.FTP(timeout=30)

Loading == "loading..."   \* 'データを取得中...', the default of news_summary and opinion_summary
Dash    == "-"            \* the default of the three sentiment texts

\* the keys the card of a top article is built from, each by art[key]
CardKeys == {"rank", "url", "title", "source", "point"}

\* the keys the line of an article in a history block is built from
HistCardKeys == {"rank", "url", "title", "source"}

\* top_articles_html: one card per entry of summary.get("top_articles", [])
TopCards(summary) ==
    LET top == Get(summary, "top_articles", <<>>)
    IN  [i \in 1..Len(top) |-> [k \in CardKeys |-> top[i][k]]]

\* the first loop raises KeyError on an entry that lacks one of the keys
TopRaises(summary) ==
    LET top == Get(summary, "top_articles", <<>>)
    IN  \E i \in 1..Len(top) : ~(CardKeys \subseteq DOMAIN top[i])

\* the block of one history entry: hist["timestamp"], hist.get("time_slot", ""),
\* hist["summary"].get("news_summary", ""), and its first five articles
HistBlock(hist) ==
    LET arts == Slice(Get(hist["summary"], "top_articles", <<>>), HistArticles)
    IN  [label    |-> hist["timestamp"],
         slot     |-> Get(hist, "time_slot", ""),
         text     |-> Get(hist["summary"], "news_summary", ""),
         articles |-> [i \in 1..Len(arts) |-> [k \in HistCardKeys |-> arts[i][k]]]]

\* building the block of one history entry raises KeyError
HistRaises(hist) ==
    \/ ~Has(hist, "timestamp")
    \/ ~Has(hist, "summary")
    \/ LET arts == Slice(Get(hist["summary"], "top_articles", <<>>), HistArticles)
       IN  \E i \in 1..Len(arts) : ~(HistCardKeys \subseteq DOMAIN arts[i])

\* joho_html: every field of a pick is read with pick.get
JohoCards(summary) ==
    LET picks == Get(summary, "joho_picks", <<>>)
    IN  [i \in 1..Len(picks) |->
            [headline     |-> Get(picks[i], "headline", ""),
             body         |-> Get(picks[i], "body", ""),
             why_matters  |-> Get(picks[i], "why_matters", ""),
             source_title |-> Get(picks[i], "source_title", ""),
             source_url   |-> Get(picks[i], "source_url", "#"),
             source_name  |-> Get(picks[i], "source_name", "")]]

\* generate_html: the page it writes, or the error that leaves it
generate_html(cd, hist) ==
    LET summary   == cd["summary"]
        shown     == Slice(hist, HistShown)
        sentiment == Get(summary, "sentiment", <<>>)
    IN  IF TopRaises(summary) \/ \E i \in 1..Len(shown) : HistRaises(shown[i])
        THEN [ok |-> FALSE, err |-> "KeyError"]
        ELSE [ok   |-> TRUE,
              page |-> [news_summary    |-> Get(summary, "news_summary", Loading),
                        opinion_summary |-> Get(summary, "opinion_summary", Loading),
                        positive        |-> Get(sentiment, "positive", Dash),
                        negative        |-> Get(sentiment, "negative", Dash),
                        neutral         |-> Get(sentiment, "neutral", Dash),
                        top_articles    |-> TopCards(summary),
                        joho            |-> JohoCards(summary),
                        history         |-> [i \in 1..Len(shown) |-> HistBlock(shown[i])]]]

\* the guard with the host tested only
UploadGuardHostOnly(host, user, password) == ~host

\* if not FTP_HOST or not FTP_USER or not FTP_PASSWORD
UploadGuard(host, user, password) == ~host \/ ~user \/ ~password

----------------------------------------------------------------------------
(* generate_html, upload_to_ftp: actions *)

FullArticle ==
    [rank |-> 1, title |-> "title", source |-> "source", url |-> "url", point |-> "point"]

FullSentiment == [positive |-> "pos", negative |-> "neg", neutral |-> "neu"]

\* the top_articles lists a parsed object may hold: none, a complete entry,
\* a complete entry followed by one that lacks a key
TopLists ==
    {<<>>, <<FullArticle>>} \cup {<<FullArticle, Without(FullArticle, {k})>> : k \in CardKeys}

\* The summaries main may hand to generate_html: a JSON object a candidate
\* returned, with any of its fields missing, to which main has added joho_picks.
Summaries ==
    { Without([news_summary    |-> "news",
               opinion_summary |-> "opinion",
               sentiment       |-> sent,
               top_articles    |-> top,
               joho_picks      |-> picks], missing) :
        sent \in {FullSentiment, Without(FullSentiment, {"negative"})},
        top \in TopLists,
        picks \in {<<>>, <<[headline |-> "h"]>>},
        missing \in SUBSET {"news_summary", "opinion_summary", "sentiment", "top_articles"} }

\* a snapshot as save_data writes it
HistFull ==
    [timestamp    |-> 28,
     time_slot    |-> "slot",
     summary      |-> [news_summary |-> "news", top_articles |-> <<FullArticle>>],
     raw_articles |-> <<>>]

\* The lists load_history may return: every file that parses is taken as it
\* is, whatever keys its object has.
Histories ==
    { <<>>,
      <<HistFull>>,
      <<HistFull, Without(HistFull, {"timestamp"})>>,
      <<Without(HistFull, {"summary"})>>,
      <<[HistFull EXCEPT !.summary = Without(@, {"news_summary", "top_articles"})]>>,
      [i \in 1..(HistShown + 1) |-> IF i > HistShown THEN Without(HistFull, {"timestamp"}) ELSE HistFull] }

InitPublish ==
    /\ FetchDone(0)
    /\ LLMIdle
    /\ SchedIdle
    /\ mpc = "idle"
    /\ clock = 0
    /\ DATA_DIR = <<>>
    /\ data = NoData
    /\ filepath = NoPath
    /\ runs = 0
    /\ history \in Histories
    /\ ppc = "generate_html"
    /\ \E s \in Summaries :
          current_data = [timestamp |-> 28, time_slot |-> "slot", summary |-> s, raw_articles |-> <<>>]
    /\ index_html = NoPage
    /\ FTP_HOST \in BOOLEAN
    /\ FTP_USER \in BOOLEAN
    /\ FTP_PASSWORD \in BOOLEAN
    /\ ftp = "none"
    /\ remote = NoPage
    /\ printed = <<>>
    /\ CallIdle
    /\ LogIdle
    /\ DateIdle

\* html_path = generate_html(current_data, history): the page is written, or
\* the error leaves main
Render ==
    /\ ppc = "generate_html"
    /\ LET r == generate_html(current_data, history)
       IN  IF r.ok
           THEN /\ index_html' = [bytes |-> "html", value |-> r.page]
                /\ ppc' = "upload_to_ftp"
           ELSE /\ ppc' = "raised"
                /\ UNCHANGED index_html
    /\ UNCHANGED <<current_data, FTP_HOST, FTP_USER, FTP_PASSWORD, ftp, remote, printed,
                   fetchVars, llmVars, storeVars, schedVars, callVars, logVars, dateVars, missed>>

\* upload_to_ftp, lines 434-436: a credential is missing
UploadSkip ==
    /\ ppc = "upload_to_ftp"
    /\ UploadGuard(FTP_HOST, FTP_USER, FTP_PASSWORD)
    /\ printed' = Append(printed, "skip")
    /\ ppc' = "uploaded"
    /\ UNCHANGED <<current_data, index_html, FTP_HOST, FTP_USER, FTP_PASSWORD, ftp, remote,
                   fetchVars, llmVars, storeVars, schedVars, callVars, logVars, dateVars, missed>>

\* one step of the session: it succeeds and the session is at `reached`, or
\* it raises, the with block closes the session and the except branch prints
\* the error
FtpStep(at, reached, next, line) ==
    /\ ppc = at
    /\ \/ /\ ftp' = reached
          /\ printed' = printed \o line
          /\ ppc' = next
       \/ /\ ftp' = "closed"
          /\ printed' = Append(printed, "ERROR")
          /\ ppc' = "uploaded"

\* lines 439-441: ftplib.FTP(timeout=30), ftp.connect(FTP_HOST, 21), set_pasv
FtpConnect ==
    /\ ~UploadGuard(FTP_HOST, FTP_USER, FTP_PASSWORD)
    /\ FtpStep("upload_to_ftp", "connected", "login", <<>>)
    /\ UNCHANGED <<current_data, index_html, FTP_HOST, FTP_USER, FTP_PASSWORD, remote,
                   fetchVars, llmVars, storeVars, schedVars, callVars, logVars, dateVars, missed>>

\* line 442: ftp.login(FTP_USER, FTP_PASSWORD)
FtpLogin ==
    /\ FtpStep("login", "logged_in", "cwd", <<"login">>)
    /\ UNCHANGED <<current_data, index_html, FTP_HOST, FTP_USER, FTP_PASSWORD, remote,
                   fetchVars, llmVars, storeVars, schedVars, callVars, logVars, dateVars, missed>>

\* line 444: ftp.cwd(FTP_REMOTE_PATH)
FtpCwd ==
    /\ FtpStep("cwd", "in_directory", "store", <<>>)
    /\ UNCHANGED <<current_data, index_html, FTP_HOST, FTP_USER, FTP_PASSWORD, remote,
                   fetchVars, llmVars, storeVars, schedVars, callVars, logVars, dateVars, missed>>

\* lines 445-447: the file is opened and stored, the with block ends
FtpStore ==
    /\ FtpStep("store", "closed", "uploaded", <<"done">>)
    /\ remote' = IF ppc' = "uploaded" /\ printed' # Append(printed, "ERROR")
                 THEN index_html ELSE remote
    /\ UNCHANGED <<current_data, index_html, FTP_HOST, FTP_USER, FTP_PASSWORD,
                   fetchVars, llmVars, storeVars, schedVars, callVars, logVars, dateVars, missed>>

\* main, line 1293: log("=== 完了 ===") and the return
MainDone ==
    /\ ppc = "uploaded"
    /\ ppc' = "done"
    /\ UNCHANGED <<current_data, index_html, FTP_HOST, FTP_USER, FTP_PASSWORD, ftp, remote,
                   printed, fetchVars, llmVars, storeVars, schedVars, callVars, logVars, dateVars, missed>>

NextPublish ==
    \/ Render
    \/ UploadSkip
    \/ FtpConnect
    \/ FtpLogin
    \/ FtpCwd
    \/ FtpStore
    \/ MainDone

SpecPublish == InitPublish /\ [][NextPublish]_vars

----------------------------------------------------------------------------
(* generate_html, upload_to_ftp: properties *)

Uploading == {"upload_to_ftp", "login", "cwd", "store"}

Logged(line) == \E i \in 1..Len(printed) : printed[i] = line

\* a step taken inside upload_to_ftp, or after it, stays in the run
StaysInRun ==
    (ppc \in Uploading \cup {"uploaded"}) => (ppc' \in Uploading \cup {"uploaded", "done"})

\* C22: when the host, the user or the password is missing no session is ever
\* opened and nothing is stored remotely; a session that ended without storing
\* the page has left an error line; and no step of upload_to_ftp leaves it by
\* raising: from every position inside it the run goes on to its end.
C22_UploadNeverFatal ==
    /\ [](~(FTP_HOST /\ FTP_USER /\ FTP_PASSWORD) => ftp = "none" /\ remote = NoPage)
    /\ [](ftp = "closed" /\ remote = NoPage => Logged("ERROR"))
    /\ [](ppc \in Uploading =>
            ENABLED (UploadSkip \/ FtpConnect \/ FtpLogin \/ FtpCwd \/ FtpStore))
    /\ [][StaysInRun]_vars

\* a run completed after the store step of the session failed
C22_Witness ==
    /\ ppc = "done"
    /\ FTP_HOST /\ FTP_USER /\ FTP_PASSWORD
    /\ printed = <<"login", "ERROR">>
    /\ remote = NoPage

\* C23: whatever summary a candidate returned and whatever history was
\* loaded, once main is past the call of generate_html the page is written, and
\* it shows the placeholder for every summarization field the summary lacks.
C23_AlwaysRenders ==
    ppc # "generate_html" =>
        /\ ppc # "raised"
        /\ index_html # NoPage
        /\ LET summary == current_data["summary"]
               page    == index_html.value
           IN  /\ ~("news_summary" \in DOMAIN summary) => page.news_summary = Loading
               /\ ~("opinion_summary" \in DOMAIN summary) => page.opinion_summary = Loading
               /\ ~("sentiment" \in DOMAIN summary) =>
                     page.positive = Dash /\ page.negative = Dash /\ page.neutral = Dash

----------------------------------------------------------------------------
(* the outbound calls of one run, and the scheduler's wait for it *)

MaxCands == 2      \* candidates of models_to_try a run is followed through
WaitStep == 15     \* seconds between two looks at a call that is waiting

\* what the peer of a call does: it answers, it answers with an error or
\* closes the connection, or it accepts the connection and never answers
Peers == {"answers", "fails", "silent"}

Call(at, k) == [at |-> at, k |-> k]

\* feedparser.parse(feed_url) per source, generate_content per candidate in
\* summarize_with_gemini and in generate_joho_commentary, the FTP session
Calls ==
    {Call("feed", i) : i \in 1..NumSources}
        \cup {Call(f, i) : f \in {"summarize", "joho"}, i \in 1..MaxCands}
        \cup {Call("ftp", 1)}

\* The timeout a call is made with.  Only ftplib.FTP(timeout=30) has one:
\* feedparser.parse(feed_url) and client.models.generate_content(model=...,
\* contents=...) are called with none, and genai.Client(api_key=...) is built
\* without http options.
HasTimeout(c) == c.at = "ftp"

End == Call("end", 0)

\* main from upload_to_ftp on
Upload ==
    IF ~FTP_HOST \/ ~FTP_USER \/ ~FTP_PASSWORD THEN End ELSE Call("ftp", 1)

\* main after fetch_articles: no article, no backend call without the key
AfterFeeds ==
    IF \A i \in 1..NumSources : peer[Call("feed", i)] # "answers"
    THEN End
    ELSE IF GEMINI_API_KEY THEN Call("summarize", 1) ELSE Upload

\* where the run goes when call c is over, with an answer or with an error
\* (every error of a call is caught where the call is made)
NextCall(c, answered) ==
    CASE c.at = "feed" ->
            IF c.k < NumSources THEN Call("feed", c.k + 1) ELSE AfterFeeds
      [] c.at = "summarize" ->
            IF answered \/ c.k = MaxCands THEN Call("joho", 1) ELSE Call("summarize", c.k + 1)
      [] c.at = "joho" ->
            IF answered \/ c.k = MaxCands THEN Upload ELSE Call("joho", c.k + 1)
      [] OTHER -> End

InitRun ==
    /\ FetchDone(0)
    /\ StoreIdle
    /\ fn = "none"
    /\ GEMINI_API_KEY \in BOOLEAN
    /\ lpc = "idle"
    /\ cand = 1
    /\ invoked = <<>>
    /\ result = [kind |-> "none", value |-> <<>>]
    /\ ppc = "idle"
    /\ current_data = [bytes |-> "none"]
    /\ index_html = NoPage
    /\ FTP_HOST \in BOOLEAN
    /\ FTP_USER = TRUE
    /\ FTP_PASSWORD = TRUE
    /\ ftp = "none"
    /\ remote = NoPage
    /\ printed = <<>>
    /\ spc = "run_fetch"
    /\ now_jst = 0
    /\ next_run = Unset
    /\ remaining = 0
    /\ slept = 0
    /\ caller = "cold"
    /\ live = 0
    /\ outcome = "none"
    /\ logs_exist = TRUE
    /\ cpc = Call("idle", 0)
    /\ peer \in [Calls -> Peers]
    /\ waited = 0
    /\ LogIdle
    /\ DateIdle

\* the child process begins main: fetch_articles calls the first source
ChildStarts ==
    /\ live > 0
    /\ cpc = Call("idle", 0)
    /\ cpc' = Call("feed", 1)
    /\ UNCHANGED <<peer, waited, fetchVars, llmVars, storeVars, schedVars, pubVars, logVars, dateVars, missed>>

\* the peer answers or the call raises: the run goes on
CallReturns ==
    /\ cpc \in Calls
    /\ peer[cpc] # "silent"
    /\ cpc' = NextCall(cpc, peer[cpc] = "answers")
    /\ waited' = 0
    /\ UNCHANGED <<peer, fetchVars, llmVars, storeVars, schedVars, pubVars, logVars, dateVars, missed>>

\* the peer is silent and the timeout of the call has not run out
CallWaits ==
    /\ cpc \in Calls
    /\ peer[cpc] = "silent"
    /\ HasTimeout(cpc)
    /\ waited < FtpTimeout
    /\ waited' = waited + WaitStep
    /\ UNCHANGED <<cpc, peer, fetchVars, llmVars, storeVars, schedVars, pubVars, logVars, dateVars, missed>>

\* the timeout of the call has run out: the call raises, the run goes on
CallTimesOut ==
    /\ cpc \in Calls
    /\ peer[cpc] = "silent"
    /\ HasTimeout(cpc)
    /\ waited >= FtpTimeout
    /\ cpc' = NextCall(cpc, FALSE)
    /\ waited' = 0
    /\ UNCHANGED <<peer, fetchVars, llmVars, storeVars, schedVars, pubVars, logVars, dateVars, missed>>

\* main returns and the child process exits
ChildReturns ==
    /\ cpc = End
    /\ live > 0
    /\ live' = live - 1
    /\ outcome' = "ok"
    /\ cpc' = Call("exited", 0)
    /\ UNCHANGED <<peer, waited, spc, now_jst, next_run, remaining, slept, caller, logs_exist,
                   fetchVars, llmVars, storeVars, pubVars, logVars, dateVars, missed>>

\* the steps of the child
ChildStep ==
    \/ ChildStarts
    \/ CallReturns
    \/ CallWaits
    \/ CallTimesOut
    \/ ChildReturns

NextRunCalls ==
    \/ Launch
    \/ ChildStarts
    \/ CallReturns
    \/ CallWaits
    \/ CallTimesOut
    \/ ChildReturns
    \/ WaitReturns

SpecRun == InitRun /\ [][NextRunCalls]_vars

\* the scheduler and the child are processes that run whenever they can
SpecRunFair == SpecRun /\ WF_vars(NextRunCalls)

----------------------------------------------------------------------------
(* the outbound calls of one run: properties *)

\* C24: every outbound call of a run is bounded by a timeout: a child that is
\* inside a feed fetch, a backend invocation or the push always has a step
\* left, the answer or the end of its timeout, so the run ends and the
\* scheduler's wait for it returns.
C24_CallsBounded ==
    (spc = "subprocess" /\ cpc \in Calls) =>
        ENABLED (CallReturns \/ CallWaits \/ CallTimesOut)

\* the same as liveness: the wait of the scheduler returns
C24_WaitReturns == (spc = "subprocess") ~> (spc = "returned")

----------------------------------------------------------------------------
(* parse_pub_date *)

(***************************************************************************)
(* Instants and local times are counted in hours.  A structured field is   *)
(* a record: absent, a struct_time that stands for the UTC time v, or a    *)
(* struct_time mktime cannot convert.  A textual field is a sequence of    *)
(* tokens, <<>> when the field is absent or empty:                         *)
(*   "dt"    YYYY-MM-DDTHH:MM:SS, the local time v                         *)
(*   "rfc"   Mon, 01 Jan 2024 10:00:00, the local time v                   *)
(*   "sp"    a blank        "plus" "minus"   the signs                     *)
(*   "dd"    two digits, the number v        "colon"   the colon           *)
(*   "w"     text that is no date                                          *)
(***************************************************************************)

Tok(kind, v) == [kind |-> kind, v |-> v]

Absent == Tok("absent", 0)

\* an instant well after the epoch
SomeTime == 100

StructFields == {Absent, Tok("struct", SomeTime), Tok("overflow", 0)}

IsoColon(sign, hh) == <<Tok("dt", SomeTime), Tok(sign, 0), Tok("dd", hh), Tok("colon", 0), Tok("dd", 0)>>

TextFields ==
    { <<>>,
      IsoColon("plus", 9),
      IsoColon("minus", 5),
      IsoColon("plus", 0),
      <<Tok("dt", SomeTime)>>,
      <<Tok("rfc", SomeTime), Tok("sp", 0), Tok("plus", 0), Tok("dd", 9), Tok("dd", 0)>>,
      <<Tok("w", 0)>> }

\* the local offsets of the machines the pipeline runs on: UTC, JST
LocalOffsets == {0, 9}

Failed == [ok |-> FALSE, value |-> None]
Parsed(v) == [ok |-> TRUE, value |-> v]

Kinds(s) == [i \in 1..Len(s) |-> s[i].kind]

Sign(k) == IF k = "minus" THEN -1 ELSE 1

\* datetime.fromtimestamp(time.mktime(t), tz=utc): mktime reads the
\* struct_time as local time; it raises on a value out of range
FromStruct(t, tz) ==
    IF t.kind = "struct" THEN Parsed(t.v - tz) ELSE Failed

\* email.utils.parsedate_to_datetime(s).astimezone(utc): an RFC 2822 date
\* with a numeric zone; it raises ValueError on every other text here
ParseRfc(s) ==
    IF Kinds(s) = <<"rfc", "sp", "plus", "dd", "dd">> \/ Kinds(s) = <<"rfc", "sp", "minus", "dd", "dd">>
    THEN Parsed(s[1].v - Sign(s[3].kind) * s[4].v)
    ELSE Failed

\* re.sub(r"(\+\d{2}):(\d{2})$", r"+\1\2", s): a plus, two digits, a colon and
\* two digits at the end of the text are replaced by a plus, the first group
\* (the plus and its two digits) and the second group
SubOffset(s) ==
    LET n == Len(s)
    IN  IF n >= 4 /\ Kinds(SubSeq(s, n - 3, n)) = <<"plus", "dd", "colon", "dd">>
        THEN SubSeq(s, 1, n - 4) \o <<Tok("plus", 0), s[n - 3], s[n - 2], s[n]>>
        ELSE s

\* datetime.fromisoformat(s).astimezone(utc): a date-time with an offset
\* written HH:MM or HHMM, or without one (then it is read as local time)
FromIso(s, tz) ==
    LET k == Kinds(s)
    IN  IF k = <<"dt">> THEN Parsed(s[1].v - tz)
        ELSE IF Len(s) = 5 /\ k[1] = "dt" /\ k[2] \in {"plus", "minus"}
                /\ k[3] = "dd" /\ k[4] = "colon" /\ k[5] = "dd"
        THEN Parsed(s[1].v - Sign(k[2]) * s[3].v)
        ELSE IF Len(s) = 4 /\ k[1] = "dt" /\ k[2] \in {"plus", "minus"}
                /\ k[3] = "dd" /\ k[4] = "dd"
        THEN Parsed(s[1].v - Sign(k[2]) * s[3].v)
        ELSE Failed

\* the body of the second loop for one textual field
FromText(s, tz) ==
    IF s = <<>> THEN Failed
    ELSE IF ParseRfc(s).ok THEN ParseRfc(s)
    ELSE FromIso(SubOffset(s), tz)

\* the first loop: published_parsed, then updated_parsed
StructuredAttempt(e, tz) ==
    IF FromStruct(e.published_parsed, tz).ok THEN FromStruct(e.published_parsed, tz)
    ELSE FromStruct(e.updated_parsed, tz)

\* the second loop: published, then updated
TextAttempt(e, tz) ==
    IF FromText(e.published, tz).ok THEN FromText(e.published, tz)
    ELSE FromText(e.updated, tz)

InitDate ==
    /\ FetchDone(0)
    /\ LLMIdle
    /\ StoreIdle
    /\ SchedIdle
    /\ PubIdle
    /\ CallIdle
    /\ LogIdle
    /\ dpc = "structured"
    /\ feed_entry \in [published_parsed : StructFields, updated_parsed : StructFields,
                  published : TextFields, updated : TextFields]
    /\ local_tz \in LocalOffsets
    /\ returned_dt = None
    /\ missed = FALSE

\* lines 104-111: a structured field converts and its instant is returned,
\* or the function goes on to the textual fields
ParseStructured ==
    /\ dpc = "structured"
    /\ LET r == StructuredAttempt(feed_entry, local_tz)
       IN  IF r.ok
           THEN /\ returned_dt' = r.value
                /\ dpc' = "returned"
           ELSE /\ dpc' = "textual"
                /\ UNCHANGED returned_dt
    /\ UNCHANGED <<feed_entry, local_tz, fetchVars, llmVars, storeVars, schedVars, pubVars, callVars, logVars, missed>>

\* lines 113-128: a textual field parses and its instant is returned, or
\* None is
ParseTextual ==
    /\ dpc = "textual"
    /\ returned_dt' = TextAttempt(feed_entry, local_tz).value
    /\ dpc' = "returned"
    /\ UNCHANGED <<feed_entry, local_tz, fetchVars, llmVars, storeVars, schedVars, pubVars, callVars, logVars, missed>>

NextDate ==
    \/ ParseStructured
    \/ ParseTextual

SpecDate == InitDate /\ [][NextDate]_vars

\* the entry has no structured field and its only textual field, published,
\* is an ISO date-time whose offset is written with a colon
OnlyIsoColon ==
    /\ feed_entry.published_parsed = Absent
    /\ feed_entry.updated_parsed = Absent
    /\ feed_entry.updated = <<>>
    /\ Len(feed_entry.published) = 5
    /\ feed_entry.published[1].kind = "dt"
    /\ feed_entry.published[2].kind \in {"plus", "minus"}
    /\ feed_entry.published[4].kind = "colon"

\* C29: parse_pub_date returns from the structured fields when one of them
\* converts, whatever the textual fields hold; an entry that has only a textual
\* ISO date with an offset written with a colon, plus or minus, yields the
\* instant that date stands for in UTC, not None; and it raises nowhere.
C29_ColonOffsetKnown ==
    /\ dpc \in {"structured", "textual", "returned"}
    /\ (dpc = "returned" /\ \E f \in {"published_parsed", "updated_parsed"} : feed_entry[f].kind = "struct")
          => returned_dt = SomeTime - local_tz
    /\ (dpc = "returned" /\ OnlyIsoColon) =>
          returned_dt = feed_entry.published[1].v
                     - (IF feed_entry.published[2].kind = "minus" THEN -1 ELSE 1) * feed_entry.published[3].v

====
